---------------------------- MODULE Spec2Model ----------------------------
(***************************************************************************)
(* A model of the TMS transformation pipeline of boon-pipeline:           *)
(* agents/transformation_agent.py (the five-stage workflow run by          *)
(* TMSTransformationAgent.process) with the text helpers of                *)
(* utils/text_utils.py it calls, the cache of llm/entity_resolver.py and   *)
(* the batch loop of main.py.                                              *)
(*                                                                         *)
(* Python strings whose characters matter (names, codes, identifier        *)
(* fields, oracle text) are sequences of one-character strings.  None and  *)
(* a missing dictionary key are the one-element sequences None and Absent, *)
(* which no character sequence equals.  Enumeration values that are only   *)
(* compared (stop types, revenue types, reference types) are TLA+ strings. *)
(***************************************************************************)
EXTENDS Integers, Sequences, FiniteSets, TLC

VARIABLES
    pc,               \* position of the run: the next workflow node, or its outcome
    extraction_json,  \* WorkflowState.extraction_json (the input document)
    entity_mappings,  \* WorkflowState.entity_mappings
    stop_data,        \* WorkflowState.stop_data
    revType_values,   \* WorkflowState.revType_values
    commodity_code,   \* WorkflowState.commodity_code
    tms_request,      \* WorkflowState.tms_request
    responses,        \* what _make_llm_decision returned to each stage (history)
    llm_calls,        \* number of calls of _make_llm_decision in this run
    warnings,         \* logger.warning messages emitted by _process_stops
    built,            \* the local stop_data of _process_stops before its repair
    error,            \* the exception that ended the run, or "none"
    executed,         \* the workflow nodes entered so far, in order
    code_text,        \* the argument of a fallback code generator
    code_result,      \* which generator was applied to it, and what it returned
    entity_cache,     \* EntityResolver.entity_cache, as a set of (key, code) pairs
    resolve_log,      \* the resolve calls made on the resolver so far, in order
    input_files,      \* the input_files argument of process_batch
    batch_index,      \* how many input files the loop of process_batch has handled
    results,          \* the results dict of process_batch
    batch_log,        \* the input files handled so far with their outcomes, in order
    batch_status,     \* "running", or how process_batch ended
    resolver_of,      \* which EntityResolver instance each concurrent run uses
    caches,           \* entity_cache of each EntityResolver instance
    calls,            \* the resolve call each run is inside, and how far it got
    returns,          \* the resolve calls that returned, in the order they returned
    date_str,         \* the argument of parse_datetime
    date_result       \* what parse_datetime returned for it

\* the state of one run of the workflow
pipelineVars == <<pc, extraction_json, entity_mappings, stop_data, revType_values,
                  commodity_code, tms_request, responses, llm_calls, warnings, built,
                  error, executed>>
\* the state of a call of a fallback code generator
codeVars == <<code_text, code_result>>
\* the state of an EntityResolver instance
resolverVars == <<entity_cache, resolve_log>>
\* the state of a call of process_batch
batchVars == <<input_files, batch_index, results, batch_log, batch_status>>

\* the state of runs that call resolve concurrently
concurrentVars == <<resolver_of, caches, calls, returns>>
\* the state of a call of parse_datetime
dateVars == <<date_str, date_result>>

vars == <<pipelineVars, codeVars, resolverVars, batchVars, concurrentVars, dateVars>>

---------------------------------------------------------------------------
(* Characters and Python string operations                                 *)

None == <<"<None>">>
Absent == <<"<absent>">>

UpperChars == <<"A","B","C","D","E","F","G","H","I","J","K","L","M",
                "N","O","P","Q","R","S","T","U","V","W","X","Y","Z">>
LowerChars == <<"a","b","c","d","e","f","g","h","i","j","k","l","m",
                "n","o","p","q","r","s","t","u","v","w","x","y","z">>
DigitChars == {"0","1","2","3","4","5","6","7","8","9"}
SpaceChars == {" "}

IsUpper(c) == \E i \in 1..26 : UpperChars[i] = c
IsLower(c) == \E i \in 1..26 : LowerChars[i] = c
IsAlpha(c) == IsUpper(c) \/ IsLower(c)
IsDigit(c) == c \in DigitChars
IsSpace(c) == c \in SpaceChars

\* str.upper() on one character
ToUpper(c) == IF IsLower(c) THEN UpperChars[CHOOSE i \in 1..26 : LowerChars[i] = c] ELSE c

\* str.upper()
Upper(s) == [i \in 1..Len(s) |-> ToUpper(s[i])]

\* a value of a str-or-None position that is a real string
IsStr(v) == v # None /\ v # Absent

\* Python truthiness of a str-or-None value
Truthy(v) == IsStr(v) /\ Len(v) > 0

\* dict.get(key, default): the default only when the key is missing
Get(v, default) == IF v = Absent THEN default ELSE v

RECURSIVE LStrip(_)
LStrip(s) == IF s # <<>> /\ IsSpace(Head(s)) THEN LStrip(Tail(s)) ELSE s

RECURSIVE RStrip(_)
RStrip(s) == IF s # <<>> /\ IsSpace(s[Len(s)]) THEN RStrip(SubSeq(s, 1, Len(s) - 1)) ELSE s

\* str.strip()
Strip(s) == RStrip(LStrip(s))

\* re.split(r'[,;]', text): the segments between separators, empty ones kept
RECURSIVE SplitOn(_, _, _)
SplitOn(s, seps, cur) ==
    IF s = <<>> THEN <<cur>>
    ELSE IF Head(s) \in seps THEN <<cur>> \o SplitOn(Tail(s), seps, <<>>)
    ELSE SplitOn(Tail(s), seps, Append(cur, Head(s)))

\* str.split(): the maximal runs of non-whitespace characters
RECURSIVE Words(_, _)
Words(s, cur) ==
    IF s = <<>> THEN (IF cur = <<>> THEN <<>> ELSE <<cur>>)
    ELSE IF IsSpace(Head(s))
         THEN (IF cur = <<>> THEN <<>> ELSE <<cur>>) \o Words(Tail(s), <<>>)
         ELSE Words(Tail(s), Append(cur, Head(s)))

\* the characters of s kept by predicate-set membership, in order
RECURSIVE Filter(_, _)
Filter(s, keep) ==
    IF s = <<>> THEN <<>>
    ELSE (IF Head(s) \in keep THEN <<Head(s)>> ELSE <<>>) \o Filter(Tail(s), keep)

\* str.ljust(4, 'X')
RECURSIVE LJust4(_)
LJust4(s) == IF Len(s) >= 4 THEN s ELSE LJust4(Append(s, "X"))

\* s[lo:hi] with 0-based Python slice bounds, 0 <= lo
Slice(s, lo, hi) ==
    LET h == IF hi > Len(s) THEN Len(s) ELSE hi
    IN IF h <= lo THEN <<>> ELSE SubSeq(s, lo + 1, h)

\* needle in hay (substring test)
Contains(needle, hay) ==
    \E i \in 0..(Len(hay) - Len(needle)) :
        \A j \in 1..Len(needle) : hay[i + j] = needle[j]

\* the length of the maximal run of characters satisfying a class, from index i
RECURSIVE RunEnd(_, _, _)
RunEnd(s, i, class) ==
    IF i <= Len(s) /\ s[i] \in class THEN RunEnd(s, i + 1, class) ELSE i

AlphaChars == {UpperChars[i] : i \in 1..26} \cup {LowerChars[i] : i \in 1..26}

---------------------------------------------------------------------------
(* utils/text_utils.py and the fallback code generator                     *)

\* a Python string literal as a character sequence
REF_chars == <<"R","E","F">>
UNKN == <<"U","N","K","N">>

\* re.search(r"([A-Za-z]+)(?:#|:)?\s*(\d+)", part) tried at start index i.
\* The greedy letter run is the only split that can succeed: a shorter run is
\* followed by a letter, and skipping a present '#' or ':' leaves it in the way.
RefMatchAt(part, i) ==
    LET j == RunEnd(part, i, AlphaChars)
        k == IF j <= Len(part) /\ part[j] \in {"#", ":"} THEN j + 1 ELSE j
        m == RunEnd(part, k, SpaceChars)
    IN [ok |-> j > i /\ m <= Len(part) /\ IsDigit(part[m]),
        ref_type |-> SubSeq(part, i, j - 1),
        ref_number |-> SubSeq(part, m, RunEnd(part, m, DigitChars) - 1)]

\* the references one stripped, non-empty segment yields (none or one)
ExtractPart(part) ==
    IF \E i \in 1..Len(part) : RefMatchAt(part, i).ok
    THEN LET i == CHOOSE i \in 1..Len(part) :
                      /\ RefMatchAt(part, i).ok
                      /\ \A h \in 1..(i - 1) : ~RefMatchAt(part, h).ok
             m == RefMatchAt(part, i)
         IN <<[ref_type |-> Upper(m.ref_type), ref_value |-> m.ref_number]>>
    ELSE IF \E i \in 1..Len(part) : IsDigit(part[i])
         THEN <<[ref_type |-> REF_chars, ref_value |-> part]>>
         ELSE <<>>

RECURSIVE ExtractParts(_)
ExtractParts(parts) ==
    IF parts = <<>> THEN <<>>
    ELSE LET part == Strip(Head(parts))
         IN (IF part = <<>> THEN <<>> ELSE ExtractPart(part)) \o ExtractParts(Tail(parts))

\* extract_reference_numbers(text)
extract_reference_numbers(text) ==
    IF ~Truthy(text) THEN <<>>
    ELSE ExtractParts(SplitOn(text, {",", ";"}, <<>>))

\* Constants.REFERENCE_TYPE_MAPPING.get(ref_type, Constants.REF_REF)
ReferenceTypeMapping(ref_type) ==
    CASE ref_type = <<"P","O">> -> "PO#"
      [] ref_type = <<"B","L">> -> "BL#"
      [] ref_type = <<"L","O","A","D">> -> "LOAD"
      [] ref_type = <<"P","U">> -> "PU#"
      [] ref_type = REF_chars -> "REF"
      [] ref_type = <<"S","I","D">> -> "SID"
      [] OTHER -> "REF"

\* the characters re.sub(r'[^A-Za-z0-9\s]', '', ...) keeps
CleanChars == AlphaChars \cup DigitChars \cup SpaceChars

RECURSIVE FirstLetters(_)
FirstLetters(words) ==
    IF words = <<>> THEN <<>> ELSE <<Head(words)[1]>> \o FirstLetters(Tail(words))

\* the generator without the characters taken from the first word
generate_basic_code_NoFirstWord(text) ==
    IF ~Truthy(text) \/ Len(Strip(text)) = 0 THEN UNKN
    ELSE LET words == Words(Filter(Upper(text), CleanChars), <<>>)
         IN IF Len(words) = 0 THEN UNKN
            ELSE IF Len(words) = 1 THEN Slice(LJust4(words[1]), 0, 4)
            ELSE Slice(LJust4(FirstLetters(Slice(words, 0, 4))), 0, 4)

\* TMSTransformationAgent._generate_basic_code(text)
generate_basic_code(text) ==
    IF ~Truthy(text) \/ Len(Strip(text)) = 0 THEN UNKN
    ELSE LET clean == Filter(Upper(text), CleanChars)
             words == Words(clean, <<>>)
         IN IF Len(words) = 0 THEN UNKN
            ELSE IF Len(words) = 1
                 THEN (IF Len(words[1]) <= 4 THEN LJust4(words[1])
                       ELSE Slice(words[1], 0, 4))
                 ELSE LET code == FirstLetters(Slice(words, 0, 4))
                          more == IF Len(code) < 4
                                  THEN LJust4(IF Len(words[1]) > 1
                                              THEN code \o Slice(words[1], 1, 5 - Len(code))
                                              ELSE code)
                                  ELSE code
                      IN Slice(more, 0, 4)

---------------------------------------------------------------------------
(* models.py / constants.py: values of the workflow state                  *)

\* a JSON array of strings, a missing key, or null, in a list-valued position
ListOf(items) == [t |-> "list", items |-> items]
AbsentList == [t |-> "absent", items |-> <<>>]
NullList == [t |-> "null", items |-> <<>>]

\* a parsed JSON object of the entity stage; t = "other" is any JSON value
\* that is not an object (array, string, number, null)
EntityDict(c, s, r) ==
    [t |-> "dict", customer_code |-> c, shipper_codes |-> s, receiver_codes |-> r]
EmptyEntityDict == EntityDict(Absent, AbsentList, AbsentList)
NonDictEntities == [EmptyEntityDict EXCEPT !.t = "other"]

\* a parsed JSON object of the revenue-type stage; "<absent>" is a missing
\* key and "<null>" a JSON null
RevDict(a, b, c, d) ==
    [t |-> "dict", revType1 |-> a, revType2 |-> b, revType3 |-> c, revType4 |-> d]
EmptyRevDict == RevDict("<absent>", "<absent>", "<absent>", "<absent>")
NonDictRev == [EmptyRevDict EXCEPT !.t = "other"]

\* Constants.REV_TYPE1_LOGCOM, REV_TYPE2_HOUSE, REV_TYPE3_IN, REV_TYPE4_OTR
DefaultRevTypes == RevDict("LOGCOM", "HOUSE", "IN", "OTR")

\* valid_commodities, in declaration order
valid_commodities ==
    << <<"B","R","I","C","K">>, <<"B","U","I","L","D","I","N","G">>,
       <<"D","R","Y","F","O","O","D">>, <<"F","A","K">>,
       <<"F","R","Z","F","O","O","D">>, <<"F","Z","N","&","R","F","R">>,
       <<"R","E","F","O","O","D">>, <<"S","T","E","E","L">>,
       <<"S","T","O","N","E">> >>

\* Constants.COMMODITY_FAK
COMMODITY_FAK == <<"F","A","K">>

\* what _make_llm_decision returned: "fail" is the empty string of the except
\* branch, "text" is text that is not JSON, "json" is the serialisation of value
NoEntityResponse == [kind |-> "none", value |-> EmptyEntityDict]
NoRevResponse == [kind |-> "none", value |-> EmptyRevDict]
NoTextResponse == [kind |-> "none", text |-> <<>>]

\* json.loads(response): the parsed value, or JSONDecodeError
JsonLoads(response) ==
    [ok |-> response.kind = "json", value |-> response.value]

\* the text of a response as the str _make_llm_decision returns
ResponseText(response) == IF response.kind = "fail" THEN <<>> ELSE response.text

\* the items of a section read by extraction_json.get(section, [])
SectionItems(section) == IF section.t = "list" THEN section.items ELSE <<>>

\* iterating the section raises TypeError when the key holds null
SectionIterable(section) == section.t # "null"

NoRequest == [present |-> FALSE]

\* the workflow with the edge from determine_rev_types leading past
\* determine_commodity
NextNode_SkipCommodity(node) ==
    CASE node = "extract_entities" -> "process_stops"
      [] node = "process_stops" -> "determine_rev_types"
      [] node = "determine_rev_types" -> "create_tms_request"
      [] node = "determine_commodity" -> "create_tms_request"
      [] node = "create_tms_request" -> "END"

\* the edges of the workflow: the node entered when a node has returned;
\* "END" is where workflow.invoke returns the final state to process
NextNode(node) ==
    CASE node = "extract_entities" -> "process_stops"
      [] node = "process_stops" -> "determine_rev_types"
      [] node = "determine_rev_types" -> "determine_commodity"
      [] node = "determine_commodity" -> "create_tms_request"
      [] node = "create_tms_request" -> "END"

\* a failed call issued a second time
CallsMade_Retry(response) == IF response.kind = "fail" THEN 2 ELSE 1

\* _make_llm_decision: one messages.create per call; the except branch
\* returns "" without calling again
CallsMade(response) == 1

---------------------------------------------------------------------------
(* TMSTransformationAgent._extract_entities                                *)

\* the fallback codes of a section: one _generate_basic_code per line-item
FallbackCodes(items, field) ==
    [i \in 1..Len(items) |-> generate_basic_code(Get(items[i][field], UNKN))]

\* the except branch: fallback to basic extraction
FallbackEntities(doc) ==
    EntityDict(generate_basic_code(Get(doc.customer_name, <<"U","n","k","n","o","w","n">>)),
               ListOf(FallbackCodes(SectionItems(doc.shipper_section), "ship_from_company")),
               ListOf(FallbackCodes(SectionItems(doc.receiver_section), "receiver_company")))

\* the value _extract_entities stores for an oracle response
ResolvedEntities(doc, response) ==
    IF JsonLoads(response).ok THEN JsonLoads(response).value
    ELSE FallbackEntities(doc)

\* the node itself; EntityInputs are the oracle responses the run may meet
ExtractEntities(EntityInputs) ==
    /\ pc = "extract_entities"
    /\ IF SectionIterable(extraction_json.shipper_section)
          /\ SectionIterable(extraction_json.receiver_section)
       THEN \E response \in EntityInputs :
               /\ entity_mappings' = ResolvedEntities(extraction_json, response)
               /\ responses' = [responses EXCEPT !.entities = response]
               /\ llm_calls' = llm_calls + CallsMade(response)
               /\ pc' = NextNode("extract_entities")
               /\ error' = error
       ELSE /\ pc' = "raised"
            /\ error' = "TypeError"
            /\ UNCHANGED <<entity_mappings, responses, llm_calls>>
    /\ executed' = Append(executed, "extract_entities")
    /\ UNCHANGED <<extraction_json, stop_data, built, revType_values,
                   commodity_code, tms_request, warnings>>
    /\ UNCHANGED <<codeVars, resolverVars, batchVars, concurrentVars, dateVars>>

---------------------------------------------------------------------------
(* TMSTransformationAgent._process_stops                                   *)

\* what evaluating entity_mappings[key][i] / len(entity_mappings[key]) raises
CodeLookupError(mappings, codes) ==
    IF mappings.t # "dict" THEN "TypeError"
    ELSE IF codes.t = "absent" THEN "KeyError"
    ELSE IF codes.t = "null" THEN "TypeError"
    ELSE "none"

\* codes[i] if i < len(codes) else "UNKN", for the i-th line-item (1-based here)
CompanyCode(codes, i) ==
    IF i <= Len(codes.items) THEN codes.items[i] ELSE UNKN

StopReference(type, value) ==
    [referenceType |-> type, value |-> value, referenceTable |-> "stops"]

\* the references extracted from a pickup or delivery number
NumberReferences(number) ==
    LET refs == IF Truthy(number) THEN extract_reference_numbers(number) ELSE <<>>
    IN [k \in 1..Len(refs) |->
           StopReference(ReferenceTypeMapping(refs[k].ref_type), refs[k].ref_value)]

\* shipper loop: the booking confirmation number is appended when present
ShipperReferences(shipper, booking) ==
    NumberReferences(Get(shipper.pickup_number, <<>>))
    \o (IF Truthy(booking) THEN <<StopReference("LOAD", booking)>> ELSE <<>>)

\* mutant: the receiver loop appends the booking number as the shipper loop does
ReceiverReferences_Unconditional(receiver, booking) ==
    NumberReferences(Get(receiver.receiver_delivery_number, <<>>))
    \o (IF Truthy(booking) THEN <<StopReference("LOAD", booking)>> ELSE <<>>)

\* receiver loop: appended when present and not any(ref["value"] == booking)
ReceiverReferences(receiver, booking) ==
    LET refs == NumberReferences(Get(receiver.receiver_delivery_number, <<>>))
    IN refs \o (IF Truthy(booking) /\ ~(\E k \in 1..Len(refs) : refs[k].value = booking)
                THEN <<StopReference("LOAD", booking)>> ELSE <<>>)

ShipperStop(shipper, code, sequence, booking) ==
    [eventCode |-> "LLD", stopType |-> "PUP", companyID |-> code,
     sequence |-> sequence, billable |-> TRUE,
     referenceNumbers |-> ShipperReferences(shipper, booking)]

\* the receiver stop carrying the event code of a pickup
ReceiverStop_PickupEvent(receiver, code, sequence, booking) ==
    [eventCode |-> "LLD", stopType |-> "DRP", companyID |-> code,
     sequence |-> sequence, billable |-> TRUE,
     referenceNumbers |-> ReceiverReferences(receiver, booking)]

ReceiverStop(receiver, code, sequence, booking) ==
    [eventCode |-> "LUL", stopType |-> "DRP", companyID |-> code,
     sequence |-> sequence, billable |-> TRUE,
     referenceNumbers |-> ReceiverReferences(receiver, booking)]

\* the shipper loop from line-item i on, with the running sequence counter
RECURSIVE ShipperLoop(_, _, _, _, _)
ShipperLoop(items, codes, i, sequence, booking) ==
    IF i > Len(items) THEN <<>>
    ELSE <<ShipperStop(items[i], CompanyCode(codes, i), sequence, booking)>>
         \o ShipperLoop(items, codes, i + 1, sequence + 1, booking)

\* the receiver loop, continuing the same counter
RECURSIVE ReceiverLoop(_, _, _, _, _)
ReceiverLoop(items, codes, i, sequence, booking) ==
    IF i > Len(items) THEN <<>>
    ELSE <<ReceiverStop(items[i], CompanyCode(codes, i), sequence, booking)>>
         \o ReceiverLoop(items, codes, i + 1, sequence + 1, booking)

\* mutant: the receiver loop restarts the sequence counter at 1
BuildStops_RestartCounter(doc, mappings) ==
    LET booking == Get(doc.booking_confirmation_number, None)
    IN ShipperLoop(SectionItems(doc.shipper_section),
                   mappings.shipper_codes, 1, 1, booking)
       \o ReceiverLoop(SectionItems(doc.receiver_section),
                       mappings.receiver_codes, 1, 1, booking)

\* stop_data after the two loops, before the repair
BuildStops(doc, mappings) ==
    LET booking == Get(doc.booking_confirmation_number, None)
        pickups == ShipperLoop(SectionItems(doc.shipper_section),
                               mappings.shipper_codes, 1, 1, booking)
    IN pickups \o ReceiverLoop(SectionItems(doc.receiver_section),
                               mappings.receiver_codes, 1, 1 + Len(pickups), booking)

\* the exception the two loops raise, or "none"
StopsError(doc, mappings) ==
    IF SectionItems(doc.shipper_section) # <<>>
       /\ CodeLookupError(mappings, mappings.shipper_codes) # "none"
    THEN CodeLookupError(mappings, mappings.shipper_codes)
    ELSE IF SectionItems(doc.receiver_section) # <<>>
            /\ CodeLookupError(mappings, mappings.receiver_codes) # "none"
    THEN CodeLookupError(mappings, mappings.receiver_codes)
    ELSE "none"

pickup_found(stops) == \E k \in 1..Len(stops) : stops[k].stopType = "PUP"
delivery_found(stops) == \E k \in 1..Len(stops) : stops[k].stopType = "DRP"

\* the pickup repair that logs and leaves the first stop as it is
RepairPickup_Skipped(stops, found) == stops

\* if not pickup_found and stop_data: the first stop becomes a pickup
RepairPickup(stops, found) ==
    IF ~found /\ stops # <<>>
    THEN [stops EXCEPT ![1].stopType = "PUP", ![1].eventCode = "LLD"]
    ELSE stops

\* mutant: the delivery repair is left out
RepairDelivery_Skipped(stops, found) == stops

\* if not delivery_found and stop_data: the last stop becomes a delivery
RepairDelivery(stops, found) ==
    IF ~found /\ stops # <<>>
    THEN [stops EXCEPT ![Len(stops)].stopType = "DRP", ![Len(stops)].eventCode = "LUL"]
    ELSE stops

\* the repair with the delivery flag computed after the pickup repair
RepairStops_RescanAfterPickup(stops) ==
    LET repaired == RepairPickup(stops, pickup_found(stops))
    IN RepairDelivery(repaired, delivery_found(repaired))

\* both flags are computed by one scan before either repair
RepairStops(stops) ==
    RepairDelivery(RepairPickup(stops, pickup_found(stops)), delivery_found(stops))

\* the warnings without the test for an empty stop list
RepairWarnings_OnEmpty(stops) ==
    (IF ~pickup_found(stops)
     THEN <<"No pickup stop found, setting the first stop as pickup">> ELSE <<>>)
    \o (IF ~delivery_found(stops)
        THEN <<"No delivery stop found, setting the last stop as delivery">> ELSE <<>>)

\* the logger.warning calls of the repair
RepairWarnings(stops) ==
    (IF ~pickup_found(stops) /\ stops # <<>>
     THEN <<"No pickup stop found, setting the first stop as pickup">> ELSE <<>>)
    \o (IF ~delivery_found(stops) /\ stops # <<>>
        THEN <<"No delivery stop found, setting the last stop as delivery">> ELSE <<>>)

ProcessStops ==
    /\ pc = "process_stops"
    /\ IF StopsError(extraction_json, entity_mappings) = "none"
       THEN LET stops == BuildStops(extraction_json, entity_mappings)
            IN /\ built' = stops
               /\ stop_data' = RepairStops(stops)
               /\ warnings' = warnings \o RepairWarnings(stops)
               /\ pc' = NextNode("process_stops")
               /\ error' = error
       ELSE /\ pc' = "raised"
            /\ error' = StopsError(extraction_json, entity_mappings)
            /\ UNCHANGED <<built, stop_data, warnings>>
    /\ executed' = Append(executed, "process_stops")
    /\ UNCHANGED <<extraction_json, entity_mappings, revType_values,
                   commodity_code, tms_request, responses, llm_calls>>
    /\ UNCHANGED <<codeVars, resolverVars, batchVars, concurrentVars, dateVars>>

---------------------------------------------------------------------------
(* TMSTransformationAgent._determine_rev_types                             *)

\* mutant: the except branch stores no defaults
ResolvedRevTypes_NoDefaults(response) ==
    IF JsonLoads(response).ok THEN JsonLoads(response).value
    ELSE EmptyRevDict

\* mutant: an answer lacking a key is replaced by the default tuple as a whole
ResolvedRevTypes_Atomic(response) ==
    LET v == JsonLoads(response).value
    IN IF JsonLoads(response).ok
          /\ (v.t = "dict" =>
                 "<absent>" \notin {v.revType1, v.revType2, v.revType3, v.revType4})
       THEN v
       ELSE DefaultRevTypes

\* the value _determine_rev_types stores for an oracle response
ResolvedRevTypes(response) ==
    IF JsonLoads(response).ok THEN JsonLoads(response).value
    ELSE DefaultRevTypes

DetermineRevTypes(RevInputs) ==
    /\ pc = "determine_rev_types"
    /\ \E response \in RevInputs :
          /\ revType_values' = ResolvedRevTypes(response)
          /\ responses' = [responses EXCEPT !.rev = response]
          /\ llm_calls' = llm_calls + CallsMade(response)
    /\ pc' = NextNode("determine_rev_types")
    /\ executed' = Append(executed, "determine_rev_types")
    /\ UNCHANGED <<extraction_json, entity_mappings, stop_data, built,
                   commodity_code, tms_request, warnings, error>>
    /\ UNCHANGED <<codeVars, resolverVars, batchVars, concurrentVars, dateVars>>

---------------------------------------------------------------------------
(* TMSTransformationAgent._determine_commodity                             *)

\* mutant: the scan keeps the last matching code instead of stopping at the first
RECURSIVE ScanCommodities_Last(_, _, _)
ScanCommodities_Last(codes, i, text) ==
    IF i > Len(codes) THEN None
    ELSE LET later == ScanCommodities_Last(codes, i + 1, text)
         IN IF later # None THEN later
            ELSE IF Contains(codes[i], text) THEN codes[i] ELSE None

\* for commodity in valid_commodities: if commodity in response: ... break
RECURSIVE ScanCommodities(_, _, _)
ScanCommodities(codes, i, text) ==
    IF i > Len(codes) THEN None
    ELSE IF Contains(codes[i], text) THEN codes[i]
    ELSE ScanCommodities(codes, i + 1, text)

\* the code _determine_commodity stores for a response text
ResolvedCommodity(text) ==
    LET found == ScanCommodities(valid_commodities, 1, text)
    IN IF found = None THEN COMMODITY_FAK ELSE found

\* the stage emptying the stop list it was given
DetermineCommodity_ClearsStops(TextInputs) ==
    /\ pc = "determine_commodity"
    /\ \E response \in TextInputs :
          /\ commodity_code' = ResolvedCommodity(ResponseText(response))
          /\ responses' = [responses EXCEPT !.commodity = response]
          /\ llm_calls' = llm_calls + CallsMade(response)
    /\ pc' = NextNode("determine_commodity")
    /\ executed' = Append(executed, "determine_commodity")
    /\ stop_data' = <<>>
    /\ UNCHANGED <<extraction_json, entity_mappings, built,
                   revType_values, tms_request, warnings, error>>
    /\ UNCHANGED <<codeVars, resolverVars, batchVars, concurrentVars, dateVars>>

DetermineCommodity(TextInputs) ==
    /\ pc = "determine_commodity"
    /\ \E response \in TextInputs :
          /\ commodity_code' = ResolvedCommodity(ResponseText(response))
          /\ responses' = [responses EXCEPT !.commodity = response]
          /\ llm_calls' = llm_calls + CallsMade(response)
    /\ pc' = NextNode("determine_commodity")
    /\ executed' = Append(executed, "determine_commodity")
    /\ UNCHANGED <<extraction_json, entity_mappings, stop_data, built,
                   revType_values, tms_request, warnings, error>>
    /\ UNCHANGED <<codeVars, resolverVars, batchVars, concurrentVars, dateVars>>

---------------------------------------------------------------------------
(* TMSTransformationAgent._create_tms_request and process                  *)

\* the exception building the request dict raises, or "none"
RequestError(mappings, rev_types) ==
    IF mappings.t # "dict" THEN "TypeError"
    ELSE IF mappings.shipper_codes.t = "absent" THEN "KeyError"
    ELSE IF mappings.receiver_codes.t = "absent" THEN "KeyError"
    ELSE IF mappings.customer_code = Absent THEN "KeyError"
    ELSE IF rev_types.t # "dict" THEN "AttributeError"
    ELSE "none"

\* the last code of the list in place of the first
FirstCode_Last(codes) ==
    IF codes.items # <<>> THEN codes.items[Len(codes.items)] ELSE UNKN

\* codes[0] if codes else "UNKN"
FirstCode(codes) == IF codes.items # <<>> THEN codes.items[1] ELSE UNKN

\* rev_types.get(key, default)
RevGet(value, default) == IF value = "<absent>" THEN default ELSE value

\* a float that a decimal literal denotes: mant / 10^scale, without
\* trailing zeros of the fraction, so that equal numbers are equal records
RECURSIVE FloatValue(_, _)
FloatValue(mant, scale) ==
    IF scale > 0 /\ mant % 10 = 0 THEN FloatValue(mant \div 10, scale - 1)
    ELSE [mant |-> mant, scale |-> scale]

\* Constants.DEFAULT_RATE = 111.11
DEFAULT_RATE == FloatValue(11111, 2)

\* the number a string of decimal digits denotes
RECURSIVE DigitsValue(_)
DigitsValue(digits) ==
    IF digits = <<>> THEN 0
    ELSE 10 * DigitsValue(SubSeq(digits, 1, Len(digits) - 1))
         + (CHOOSE d \in 0..9 : ToString(d) = digits[Len(digits)])

\* float(text) for a str: surrounding whitespace, a sign, digits with at most
\* one point and at least one digit; anything else raises ValueError.
\* (Exponents, underscores, inf and nan, which float also accepts, use
\* characters that are in no rate of the documents below.)
ParseFloat(text) ==
    LET t == Strip(text)
        signed == t # <<>> /\ t[1] \in {"+", "-"}
        body == IF signed THEN Tail(t) ELSE t
        j == RunEnd(body, 1, DigitChars)
        int_part == SubSeq(body, 1, j - 1)
        pointed == j <= Len(body) /\ body[j] = "."
        frac_part == IF pointed THEN SubSeq(body, j + 1, RunEnd(body, j + 1, DigitChars) - 1)
                     ELSE <<>>
        end == IF pointed THEN j + 1 + Len(frac_part) ELSE j
        ok == end = Len(body) + 1 /\ Len(int_part) + Len(frac_part) > 0
        magnitude == DigitsValue(int_part \o frac_part)
    IN [ok |-> ok,
        value |-> IF ok
                  THEN FloatValue(IF signed /\ t[1] = "-" THEN 0 - magnitude ELSE magnitude,
                                  Len(frac_part))
                  ELSE FloatValue(0, 0)]

\* freight_rate or total_rate or 0, with the total rate tried first
ChosenRate_TotalFirst(doc) ==
    IF Truthy(doc.total_rate) THEN doc.total_rate
    ELSE IF Truthy(doc.freight_rate) THEN doc.freight_rate
    ELSE None

\* freight_rate or total_rate or 0: the first that is a non-empty string;
\* None stands for the integer 0
ChosenRate(doc) ==
    IF Truthy(doc.freight_rate) THEN doc.freight_rate
    ELSE IF Truthy(doc.total_rate) THEN doc.total_rate
    ELSE None

\* charge_rate: float(...) of the chosen value, DEFAULT_RATE on ValueError
ChargeRate(doc) ==
    LET chosen == ChosenRate(doc)
    IN IF chosen = None THEN FloatValue(0, 0)
       ELSE IF ParseFloat(chosen).ok THEN ParseFloat(chosen).value
       ELSE DEFAULT_RATE

\* the mapping without its entry for "Van" and with FLAT as the default
TrailerType_FlatDefault(equipment_type) ==
    LET key == Get(equipment_type, <<"V","a","n">>)
    IN CASE key = <<"R","e","e","f","e","r">> -> "REEFER"
         [] OTHER -> "FLAT"

\* Constants.EQUIPMENT_TYPE_MAPPING.get(extraction_json.get("equipment_type", "Van"),
\*                                      Constants.TRAILER_TYPE_VAN)
TrailerType(equipment_type) ==
    LET key == Get(equipment_type, <<"V","a","n">>)
    IN CASE key = <<"V","a","n">> -> "VAN"
         [] key = <<"R","e","e","f","e","r">> -> "REEFER"
         [] key = <<"F","l","a","t">> -> "FLAT"
         [] key = <<"5","3","V","R">> -> "VAN"
         [] OTHER -> "VAN"

\* the references with the reference number ahead of the booking number
PrimaryReferences_ReferenceFirst(doc) ==
    (IF Truthy(doc.reference_number)
     THEN <<[type |-> "REF", number |-> doc.reference_number]>> ELSE <<>>)
    \o (IF Truthy(doc.booking_confirmation_number)
        THEN <<[type |-> "LOAD", number |-> doc.booking_confirmation_number]>> ELSE <<>>)

\* the (type, number) pairs of the top-level references
PrimaryReferences(doc) ==
    (IF Truthy(doc.booking_confirmation_number)
     THEN <<[type |-> "LOAD", number |-> doc.booking_confirmation_number]>> ELSE <<>>)
    \o (IF Truthy(doc.reference_number)
        THEN <<[type |-> "REF", number |-> doc.reference_number]>> ELSE <<>>)

\* references[k][0] if len(references) > k else None (1-based here)
ReferenceType(references, k) ==
    IF Len(references) >= k THEN references[k].type ELSE "<null>"
ReferenceNumber(references, k) ==
    IF Len(references) >= k THEN references[k].number ELSE None

\* the request dict; the fields that depend on nothing modelled here
\* (startDate, remark and the fixed units) are left out
TmsRequest(doc, mappings, stops, rev_types, commodity) ==
    LET references == PrimaryReferences(doc)
    IN [present |-> TRUE,
        shipper |-> FirstCode(mappings.shipper_codes),
        consignee |-> FirstCode(mappings.receiver_codes),
        billTo |-> mappings.customer_code,
        orderBy |-> mappings.customer_code,
        commodity |-> commodity,
        chargeRate |-> ChargeRate(doc),
        stops |-> stops,
        trailerType1 |-> TrailerType(doc.equipment_type),
        revType1 |-> RevGet(rev_types.revType1, "LOGCOM"),
        revType2 |-> RevGet(rev_types.revType2, "HOUSE"),
        revType3 |-> RevGet(rev_types.revType3, "IN"),
        revType4 |-> RevGet(rev_types.revType4, "OTR"),
        referenceType1 |-> ReferenceType(references, 1),
        referenceType2 |-> ReferenceType(references, 2),
        referenceType3 |-> ReferenceType(references, 3),
        referenceNumber1 |-> ReferenceNumber(references, 1),
        referenceNumber2 |-> ReferenceNumber(references, 2),
        referenceNumber3 |-> ReferenceNumber(references, 3),
        status |-> "AVL"]

CreateTmsRequest ==
    /\ pc = "create_tms_request"
    /\ IF RequestError(entity_mappings, revType_values) = "none"
       THEN /\ tms_request' = TmsRequest(extraction_json, entity_mappings, stop_data,
                                         revType_values, commodity_code)
            /\ pc' = NextNode("create_tms_request")
            /\ error' = error
       ELSE /\ pc' = "raised"
            /\ error' = RequestError(entity_mappings, revType_values)
            /\ tms_request' = tms_request
    /\ executed' = Append(executed, "create_tms_request")
    /\ UNCHANGED <<extraction_json, entity_mappings, stop_data, built,
                   revType_values, commodity_code, responses, llm_calls, warnings>>
    /\ UNCHANGED <<codeVars, resolverVars, batchVars, concurrentVars, dateVars>>

\* TmsOrderEntryRequest(**request): the required str fields hold strings
\* (companyID and revType2 are Optional[str])
ValidRequest(request) ==
    /\ IsStr(request.shipper)
    /\ IsStr(request.consignee)
    /\ IsStr(request.billTo)
    /\ IsStr(request.orderBy)
    /\ request.revType1 # "<null>"
    /\ request.revType3 # "<null>"
    /\ request.revType4 # "<null>"

\* process, after workflow.invoke returned: the request object, or the
\* validation error re-raised
Convert ==
    /\ pc = "END"
    /\ IF ValidRequest(tms_request)
       THEN pc' = "returned" /\ error' = error
       ELSE pc' = "raised" /\ error' = "ValidationError"
    /\ UNCHANGED <<extraction_json, entity_mappings, stop_data, built,
                   revType_values, commodity_code, tms_request, responses,
                   llm_calls, warnings, executed>>
    /\ UNCHANGED <<codeVars, resolverVars, batchVars, concurrentVars, dateVars>>

---------------------------------------------------------------------------
(* Inputs: extraction documents and oracle responses                       *)

MaxShippers == 2
MaxReceivers == 2
MaxOracleItems == 1
MaxCodes == 1
MaxPieces == 2

SeqsUpTo(X, n) == UNION {[1..k -> X] : k \in 0..n}

\* the booking confirmation number of the example document
Booking == <<"1","0","2","7","1">>

ShipperItem(company, number) ==
    [ship_from_company |-> company, pickup_number |-> number]
ReceiverItem(company, number) ==
    [receiver_company |-> company, receiver_delivery_number |-> number]

\* "Ab Co" / "1289969, 10271";  null / "PO 55";  no company, no pickup number
ShipperItems ==
    { ShipperItem(<<"A","b"," ","C","o">>, <<"1","2","8","9","9","6","9",","," ","1","0","2","7","1">>),
      ShipperItem(None, <<"P","O"," ","5","5">>),
      ShipperItem(Absent, Absent) }

\* "Boise" / "10271";  "Ab Co" / "PO#10271;10271";  no company / "# 10271"
ReceiverItems ==
    { ReceiverItem(<<"B","o","i","s","e">>, <<"1","0","2","7","1">>),
      ReceiverItem(<<"A","b"," ","C","o">>, <<"P","O","#","1","0","2","7","1",";","1","0","2","7","1">>),
      ReceiverItem(Absent, <<"#"," ","1","0","2","7","1">>) }

Document(name, shippers, receivers, booking, reference) ==
    [customer_name |-> name,
     shipper_section |-> shippers,
     receiver_section |-> receivers,
     booking_confirmation_number |-> booking,
     reference_number |-> reference,
     total_rate |-> Absent,
     freight_rate |-> Absent,
     equipment_type |-> Absent]

\* the document {} with no key at all
EmptyDocument == Document(Absent, AbsentList, AbsentList, Absent, Absent)

\* the documents with up to maxS shipper and maxR receiver line-items
Documents(shippers, maxS, receivers, maxR, bookings) ==
    { Document(<<"K","i","r","s","c","h"," ","I","n","c",".">>, ListOf(s), ListOf(r), b, <<"0","5","6","7","6","9","6">>) :
        s \in SeqsUpTo(shippers, maxS),
        r \in SeqsUpTo(receivers, maxR),
        b \in bookings }

\* every combination of the line-items above, with and without a booking number
AllDocuments ==
    Documents(ShipperItems, MaxShippers, ReceiverItems, MaxReceivers, {Absent, Booking})

\* the line-items of the example document, each present or not
OracleDocuments ==
    Documents({ShipperItem(<<"A","b"," ","C","o">>, <<"1","2","8","9","9","6","9",","," ","1","0","2","7","1">>)}, MaxOracleItems,
              {ReceiverItem(<<"B","o","i","s","e">>, <<"1","0","2","7","1">>)}, MaxOracleItems, {Booking})

EntityResponse(kind, value) == [kind |-> kind, value |-> value]

\* a failed call, non-JSON text, and well-formed answers whose lists are as
\* long as, or shorter than, the sections
BasicEntityResponses ==
    { EntityResponse("fail", EmptyEntityDict), EntityResponse("text", EmptyEntityDict) }
    \cup { EntityResponse("json", EntityDict(<<"K","I","R","S">>, ListOf(s), ListOf(s))) :
             s \in {<<>>, <<<<"A","C","M","E">>>>, <<<<"A","C","M","E">>, <<"B","C","B","M">>>>} }

\* a well-formed answer for one shipper and one receiver
GoodEntities == EntityDict(<<"K","I","R","S">>, ListOf(<<<<"A","C","M","E">>>>), ListOf(<<<<"B","C","B","M">>>>))

\* what a code-list key may hold: missing, null, or a list of codes that are
\* or are not four uppercase letters
CodeListValues ==
    {AbsentList, NullList}
    \cup {ListOf(l) : l \in SeqsUpTo({<<"A","C","M","E">>, <<"T","O","O","L","O","N","G">>}, MaxCodes)}

\* every shape of answer: failed, non-JSON, JSON that is no object, and the
\* well-formed object with any one key missing, null or ill-formed
AllEntityResponses ==
    { EntityResponse("fail", EmptyEntityDict), EntityResponse("text", EmptyEntityDict),
      EntityResponse("json", NonDictEntities) }
    \cup { EntityResponse("json", [GoodEntities EXCEPT !.customer_code = c]) :
             c \in {<<"K","I","R","S">>, <<"a","c","m","e">>, Absent, None} }
    \cup { EntityResponse("json", [GoodEntities EXCEPT !.shipper_codes = l]) :
             l \in CodeListValues }
    \cup { EntityResponse("json", [GoodEntities EXCEPT !.receiver_codes = l]) :
             l \in CodeListValues }

RevResponse(kind, value) == [kind |-> kind, value |-> value]

BasicRevResponses ==
    { RevResponse("fail", EmptyRevDict),
      RevResponse("json", RevDict("LOGOUT", "STD", "OUT", "LOCAL")) }

AllRevResponses ==
    { RevResponse("fail", EmptyRevDict), RevResponse("text", EmptyRevDict),
      RevResponse("json", NonDictRev) }
    \cup { RevResponse("json", RevDict(a, b, c, d)) :
             a \in {"<absent>", "LOGOUT"}, b \in {"<absent>", "STD"},
             c \in {"<absent>", "OUT"}, d \in {"<absent>", "LOCAL"} }
    \cup { RevResponse("json", RevDict(a, "STD", "OUT", d)) :
             a \in {"BOGUS", "<null>"}, d \in {"LOCAL", "otr"} }

TextResponse(kind, text) == [kind |-> kind, text |-> text]

RECURSIVE Concat(_)
Concat(pieces) == IF pieces = <<>> THEN <<>> ELSE Head(pieces) \o Concat(Tail(pieces))

\* pieces of response text: two codes, a code in two halves, lower case, prose
TextPieces == { <<"S","T","E","E","L">>, <<"B","R","I","C","K">>, <<"F","A">>, <<"K">>, <<"s","t","e","e","l"," ">> }

BasicTextResponses ==
    { TextResponse("fail", <<>>), TextResponse("text", <<"S","T","E","E","L">>) }

AllTextResponses ==
    { TextResponse("fail", <<>>) }
    \cup { TextResponse("text", Concat(p)) : p \in SeqsUpTo(TextPieces, MaxPieces) }

---------------------------------------------------------------------------
(* The run of process() on one document                                    *)

\* no fallback code generator has been called
IdleCode ==
    /\ code_text = <<>>
    /\ code_result = [by |-> "none", value |-> None]

\* a new EntityResolver: self.entity_cache = {}
IdleResolver ==
    /\ entity_cache = {}
    /\ resolve_log = <<>>

\* process_batch has not been called
IdleBatch ==
    /\ input_files = <<>>
    /\ batch_index = 0
    /\ results = {}
    /\ batch_log = <<>>
    /\ batch_status = "idle"

\* the runs that may call resolve at the same time
Runs == {1, 2}

\* no run has called resolve; every resolver is new
IdleConcurrent ==
    /\ resolver_of = [run \in Runs |-> run]
    /\ caches = [resolver \in Runs |-> {}]
    /\ calls = [run \in Runs |-> [at |-> "idle", name |-> <<>>, entity_type |-> <<>>,
                                   code |-> <<>>]]
    /\ returns = <<>>

\* datetime(year, month, day, hour, minute, second, microsecond, tzinfo);
\* tz is the UTC offset as written, <<>> for a naive datetime
Timestamp(year, month, day, hour, minute, second, microsecond, tz) ==
    [none |-> FALSE, year |-> year, month |-> month, day |-> day, hour |-> hour,
     minute |-> minute, second |-> second, microsecond |-> microsecond, tz |-> tz]

\* the None that parse_datetime returns
NoDatetime ==
    [none |-> TRUE, year |-> 0, month |-> 0, day |-> 0, hour |-> 0,
     minute |-> 0, second |-> 0, microsecond |-> 0, tz |-> <<>>]

\* parse_datetime has not been called
IdleDate ==
    /\ date_str = <<>>
    /\ date_result = [done |-> FALSE, value |-> NoDatetime]

InitState(doc) ==
    /\ IdleCode /\ IdleResolver /\ IdleBatch /\ IdleConcurrent /\ IdleDate
    /\ executed = <<>>
    /\ pc = "extract_entities"
    /\ extraction_json = doc
    /\ entity_mappings = EmptyEntityDict
    /\ stop_data = <<>>
    /\ built = <<>>
    /\ revType_values = EmptyRevDict
    /\ commodity_code = <<>>
    /\ tms_request = NoRequest
    /\ responses = [entities |-> NoEntityResponse, rev |-> NoRevResponse,
                    commodity |-> NoTextResponse]
    /\ llm_calls = 0
    /\ warnings = <<>>
    /\ error = "none"

\* every document, an oracle that fails or answers well-formed
Init == \E doc \in AllDocuments : InitState(doc)

Next ==
    \/ ExtractEntities(BasicEntityResponses)
    \/ ProcessStops
    \/ DetermineRevTypes(BasicRevResponses)
    \/ DetermineCommodity(BasicTextResponses)
    \/ CreateTmsRequest
    \/ Convert

Spec == Init /\ [][Next]_vars

\* few line-items, every shape of oracle response
InitOracle == \E doc \in OracleDocuments : InitState(doc)

NextOracle ==
    \/ ExtractEntities(AllEntityResponses)
    \/ ProcessStops
    \/ DetermineRevTypes(AllRevResponses)
    \/ DetermineCommodity(AllTextResponses)
    \/ CreateTmsRequest
    \/ Convert

SpecOracle == InitOracle /\ [][NextOracle]_vars

\* the example document of test_script.py
ExampleDocument ==
    [customer_name |-> <<"K","i","r","s","c","h"," ","T","r","a","n","s","p","o","r","t","a","t","i","o","n"," ","S","e","r","v","i","c","e","s",","," ","I","n","c",".">>,
     shipper_section |-> ListOf(<<ShipperItem(
         <<"7","0","7"," ","F","e","r","n","l","e","y"," ","R","a","i","l","i","n","g"," ","W","a","r","e","h","o","u","s","e">>,
         <<"1","2","8","9","9","6","9",","," ","1","0","2","7","1">>)>>),
     receiver_section |-> ListOf(<<ReceiverItem(
         <<"B","o","i","s","e"," ","C","a","s","c","a","d","e"," ","B","u","i","l","d","i","n","g"," ","M","a","t","e","r","i","a","l","s"," ","D","i","s","t","r","i","b">>,
         <<"1","0","2","7","1">>)>>),
     booking_confirmation_number |-> <<"1","0","2","7","1">>,
     reference_number |-> <<"0","5","6","7","6","9","6">>,
     total_rate |-> <<"1","1","7","5",".","0","0">>,
     freight_rate |-> <<"1","1","7","5",".","0","0">>,
     equipment_type |-> <<"V","a","n">>]

\* a rate: missing, null, empty, a decimal, a decimal between blanks, text
RateValues ==
    { Absent, None, <<>>, <<"1","1","7","5",".","0","0">>, <<" ","7",".","5"," ">>,
      <<"n","o","t","-","a","-","n","u","m","b","e","r">> }

\* an identifier field: missing, null, empty, a number
IdentifierValues(number) == { Absent, None, <<>>, number }

\* an equipment type: missing, null, the keys of the mapping, an unknown one
EquipmentValues ==
    { Absent, None, <<"V","a","n">>, <<"R","e","e","f","e","r">>, <<"F","l","a","t">>,
      <<"5","3","V","R">>, <<"v","a","n">> }

\* a section: missing, null, empty, or the one of the example document
SectionValues(section) == { AbsentList, NullList, ListOf(<<>>), section }

\* the example document with one group of its fields varied at a time
FieldDocuments ==
    { [ExampleDocument EXCEPT !.freight_rate = f, !.total_rate = t] :
        f \in RateValues, t \in RateValues }
    \cup { [ExampleDocument EXCEPT !.booking_confirmation_number = b, !.reference_number = r] :
             b \in IdentifierValues(ExampleDocument.booking_confirmation_number),
             r \in IdentifierValues(ExampleDocument.reference_number) }
    \cup { [ExampleDocument EXCEPT !.equipment_type = e, !.customer_name = n] :
             e \in EquipmentValues, n \in {Absent, None, ExampleDocument.customer_name} }
    \cup { [ExampleDocument EXCEPT !.shipper_section = s, !.receiver_section = r] :
             s \in SectionValues(ExampleDocument.shipper_section),
             r \in SectionValues(ExampleDocument.receiver_section) }
    \cup { [ExampleDocument EXCEPT !.shipper_section = ListOf(<<ShipperItem(v, w)>>),
                                   !.receiver_section = ListOf(<<ReceiverItem(w, v)>>)] :
             v \in {Absent, None}, w \in {Absent, None} }

\* documents with missing and null fields, an oracle that fails or answers
\* well-formed
InitFields == \E doc \in FieldDocuments : InitState(doc)

SpecFields == InitFields /\ [][Next]_vars

\* process has not been called
IdlePipeline ==
    /\ pc = "idle"
    /\ extraction_json = EmptyDocument
    /\ entity_mappings = EmptyEntityDict
    /\ stop_data = <<>>
    /\ built = <<>>
    /\ revType_values = EmptyRevDict
    /\ commodity_code = <<>>
    /\ tms_request = NoRequest
    /\ responses = [entities |-> NoEntityResponse, rev |-> NoRevResponse,
                    commodity |-> NoTextResponse]
    /\ llm_calls = 0
    /\ warnings = <<>>
    /\ error = "none"
    /\ executed = <<>>

---------------------------------------------------------------------------
(* The fallback code generators, called on one text                        *)

\* EntityResolver._generate_fallback_code(text)
generate_fallback_code(text) ==
    IF ~Truthy(text) \/ Len(Strip(text)) = 0 THEN UNKN
    ELSE LET clean == Filter(Upper(text), CleanChars)
             words == Words(clean, <<>>)
         IN IF Len(words) = 0 THEN UNKN
            ELSE IF Len(words) = 1
                 THEN (IF Len(words[1]) <= 4 THEN LJust4(words[1])
                       ELSE Slice(words[1], 0, 4))
                 ELSE LET code == FirstLetters(Slice(words, 0, 4))
                          more == IF Len(code) < 4
                                  THEN LJust4(IF Len(words[1]) > 1
                                              THEN code \o Slice(words[1], 1, 5 - Len(code))
                                              ELSE code)
                                  ELSE code
                      IN Slice(more, 0, 4)

MaxText == 4

\* a lower-case letter, an upper-case letter, a digit, a blank, punctuation
TextChars == {"a", "B", "1", " ", "."}

\* company names of the example document and of the interface examples
ExampleTexts ==
    { <<"A","B">>,
      <<"B","o","i","s","e"," ","C","a","s","c","a","d","e"," ","B","u","i","l","d","i","n","g"," ","M","a","t","e","r","i","a","l","s">>,
      <<"7","0","7"," ","F","e","r","n","l","e","y"," ","R","a","i","l","i","n","g"," ","W","a","r","e","h","o","u","s","e">>,
      <<"K","i","r","s","c","h"," ","T","r","a","n","s","p","o","r","t","a","t","i","o","n"," ","S","e","r","v","i","c","e","s",","," ","I","n","c",".">> }

\* the texts a generator is called on: None, every short text, the examples
CodeTexts == {None} \cup SeqsUpTo(TextChars, MaxText) \cup ExampleTexts

\* self._generate_basic_code(text) called on the text
GenerateBasicCode ==
    /\ code_result.by = "none"
    /\ code_result' = [by |-> "agent", value |-> generate_basic_code(code_text)]
    /\ UNCHANGED <<code_text, pipelineVars, resolverVars, batchVars, concurrentVars, dateVars>>

\* self._generate_fallback_code(text) called on the text
GenerateFallbackCode ==
    /\ code_result.by = "none"
    /\ code_result' = [by |-> "resolver", value |-> generate_fallback_code(code_text)]
    /\ UNCHANGED <<code_text, pipelineVars, resolverVars, batchVars, concurrentVars, dateVars>>

InitCode ==
    /\ IdlePipeline /\ IdleResolver /\ IdleBatch /\ IdleConcurrent /\ IdleDate
    /\ code_text \in CodeTexts
    /\ code_result = [by |-> "none", value |-> None]

NextCode ==
    \/ GenerateBasicCode
    \/ GenerateFallbackCode

SpecCode == InitCode /\ [][NextCode]_vars

---------------------------------------------------------------------------
(* EntityResolver: a series of resolve calls on one instance               *)

\* f"{name.upper()}|{entity_type}"
CacheKey_CaseSensitive(name, entity_type) == name \o <<"|">> \o entity_type
CacheKey(name, entity_type) == Upper(name) \o <<"|">> \o entity_type

\* the lookup that never finds the key
Cached_Never(cache, key) == FALSE

\* cache_key in self.entity_cache
Cached(cache, key) == \E entry \in cache : entry[1] = key

\* self.entity_cache[cache_key]
CachedCode(cache, key) == (CHOOSE entry \in cache : entry[1] = key)[2]

\* the store that keeps the new entry alone
CacheStore_DropsOthers(cache, key, code) == {<<key, code>>}

\* self.entity_cache[cache_key] = code
CacheStore(cache, key, code) == {entry \in cache : entry[1] # key} \cup {<<key, code>>}

\* re.search(r'[A-Z]{4}', text): where the first run of 4 capitals starts, or 0
FirstCodeMatch(s) ==
    LET starts == {i \in 1..(Len(s) - 3) : \A j \in 0..3 : IsUpper(s[i + j])}
    IN IF starts = {} THEN 0 ELSE CHOOSE i \in starts : \A h \in starts : i <= h

\* _generate_code_with_llm, given what make_decision returned ("" on failure)
generate_code_with_llm(name, response) ==
    LET text == Upper(response)
        at == FirstCodeMatch(text)
    IN IF at > 0 THEN SubSeq(text, at, at + 3) ELSE generate_fallback_code(name)

MaxCalls == 3

\* names: empty, two spellings of one company, another company
ResolverNames == { <<>>, <<"A","b">>, <<"A","B">>, <<"B","o">> }

\* addresses: none, one with a city and a state
ResolverAddresses == { None, <<"O","m","a","h","a",","," ","N","E">> }

ResolverRoles == { <<"s","h","i","p","p","e","r">>, <<"r","e","c","e","i","v","e","r">> }

\* what make_decision returns: "" for a failed call, an answer with a code
ResolverResponses ==
    { <<>>, <<"C","o","d","e",":"," ","a","c","m","e">> }

\* one record of the log: the arguments, the code returned, whether
\* make_decision was called and what it returned (None without a call)
ResolveCall(name, address, entity_type, code, called, response) ==
    [name |-> name, address |-> address, entity_type |-> entity_type,
     code |-> code, oracle_called |-> called, response |-> response]

\* EntityResolver.resolve(name, address, entity_type)
Resolve(name, address, entity_type) ==
    /\ Len(resolve_log) < MaxCalls
    /\ IF ~Truthy(name)
       THEN /\ resolve_log' = Append(resolve_log,
                    ResolveCall(name, address, entity_type,
                                generate_fallback_code(entity_type), FALSE, None))
            /\ entity_cache' = entity_cache
       ELSE IF Cached(entity_cache, CacheKey(name, entity_type))
       THEN /\ resolve_log' = Append(resolve_log,
                    ResolveCall(name, address, entity_type,
                                CachedCode(entity_cache, CacheKey(name, entity_type)), FALSE, None))
            /\ entity_cache' = entity_cache
       ELSE \E response \in ResolverResponses :
               LET code == generate_code_with_llm(name, response)
               IN /\ resolve_log' = Append(resolve_log,
                          ResolveCall(name, address, entity_type, code, TRUE, response))
                  /\ entity_cache' = CacheStore(entity_cache, CacheKey(name, entity_type), code)
    /\ UNCHANGED <<pipelineVars, codeVars, batchVars, concurrentVars, dateVars>>

InitResolver ==
    /\ IdlePipeline /\ IdleCode /\ IdleBatch /\ IdleConcurrent /\ IdleDate
    /\ IdleResolver

NextResolver ==
    \E name \in ResolverNames, address \in ResolverAddresses, entity_type \in ResolverRoles :
        Resolve(name, address, entity_type)

SpecResolver == InitResolver /\ [][NextResolver]_vars

---------------------------------------------------------------------------
(* EntityResolver.resolve called by runs that are not synchronized: the    *)
(* cache test, the oracle call and the cache store are separate steps      *)

MaxResolves == 3

\* names: empty, two spellings of one company
ConcurrentNames == { <<>>, <<"A","b">>, <<"A","B">> }

ConcurrentRoles == { <<"s","h","i","p","p","e","r">> }

\* a run outside resolve
NoCall == [at |-> "idle", name |-> <<>>, entity_type |-> <<>>, code |-> <<>>]

\* one call that returned: the run, its arguments, the code returned,
\* whether make_decision was called
ReturnedCall(run, name, entity_type, code, called) ==
    [run |-> run, name |-> name, entity_type |-> entity_type,
     code |-> code, oracle_called |-> called]

\* the calls begun so far
CallsBegun == Len(returns) + Cardinality({run \in Runs : calls[run].at # "idle"})

\* resolve up to the cache test: the early returns, or a miss
Lookup(run, name, entity_type) ==
    /\ calls[run].at = "idle"
    /\ CallsBegun < MaxResolves
    /\ IF ~Truthy(name)
       THEN /\ returns' = Append(returns,
                    ReturnedCall(run, name, entity_type,
                                 generate_fallback_code(entity_type), FALSE))
            /\ calls' = calls
       ELSE IF Cached(caches[resolver_of[run]], CacheKey(name, entity_type))
       THEN /\ returns' = Append(returns,
                    ReturnedCall(run, name, entity_type,
                                 CachedCode(caches[resolver_of[run]],
                                            CacheKey(name, entity_type)), FALSE))
            /\ calls' = calls
       ELSE /\ calls' = [calls EXCEPT ![run] =
                            [at |-> "missed", name |-> name,
                             entity_type |-> entity_type, code |-> <<>>]]
            /\ returns' = returns
    /\ UNCHANGED <<resolver_of, caches>>
    /\ UNCHANGED <<pipelineVars, codeVars, resolverVars, batchVars, dateVars>>

\* code = self._generate_code_with_llm(...): the oracle call of a miss
AskOracle(run) ==
    /\ calls[run].at = "missed"
    /\ \E response \in ResolverResponses :
          calls' = [calls EXCEPT ![run].at = "answered",
                                 ![run].code = generate_code_with_llm(calls[run].name, response)]
    /\ UNCHANGED <<resolver_of, caches, returns>>
    /\ UNCHANGED <<pipelineVars, codeVars, resolverVars, batchVars, dateVars>>

\* self.entity_cache[cache_key] = code; return code
Store(run) ==
    /\ calls[run].at = "answered"
    /\ caches' = [caches EXCEPT ![resolver_of[run]] =
                     CacheStore(@, CacheKey(calls[run].name, calls[run].entity_type),
                                calls[run].code)]
    /\ returns' = Append(returns,
             ReturnedCall(run, calls[run].name, calls[run].entity_type,
                          calls[run].code, TRUE))
    /\ calls' = [calls EXCEPT ![run] = NoCall]
    /\ UNCHANGED resolver_of
    /\ UNCHANGED <<pipelineVars, codeVars, resolverVars, batchVars, dateVars>>

\* the runs share one resolver, or each run has its own
InitConcurrent ==
    /\ IdlePipeline /\ IdleCode /\ IdleResolver /\ IdleBatch /\ IdleDate
    /\ resolver_of \in {[run \in Runs |-> 1], [run \in Runs |-> run]}
    /\ caches = [resolver \in Runs |-> {}]
    /\ calls = [run \in Runs |-> NoCall]
    /\ returns = <<>>

NextConcurrent ==
    \E run \in Runs :
        \/ \E name \in ConcurrentNames, entity_type \in ConcurrentRoles :
              Lookup(run, name, entity_type)
        \/ AskOracle(run)
        \/ Store(run)

SpecConcurrent == InitConcurrent /\ [][NextConcurrent]_vars

---------------------------------------------------------------------------
(* main.py: process_batch over a list of input files                       *)

\* an input file path: a directory and a stem ("<dir>/<stem>.json")
InputFile(dir, stem) == [dir |-> dir, stem |-> stem]

\* f"{output_dir}/{Path(input_file).stem}_tms.json", for the one output_dir
OutputFile(input_file) == [stem |-> input_file.stem, suffix |-> "_tms.json"]

\* the output_file key an error entry does not have
NoOutputFile == [stem |-> "none", suffix |-> "none"]

\* how process_json_file ends: it returns the result after writing the output
\* file, or re-raises what open/json.load, agent.process or the writing raised
FileOutcomes == {"returned", "read_error", "process_error", "write_error"}

\* except Exception of the loop body, narrowed to the errors of reading
Caught_ReadErrorsOnly(outcome) == outcome = "read_error"

\* except Exception of the loop body: every exception process_json_file
\* re-raises is an Exception
Caught(outcome) == outcome \in {"read_error", "process_error", "write_error"}

\* results[input_file] = entry
ResultStore(dict, input_file, entry) ==
    {e \in dict : e[1] # input_file} \cup {<<input_file, entry>>}

\* the entry stored for an input file
ResultEntry(input_file, outcome) ==
    IF outcome = "returned"
    THEN [status |-> "success", output_file |-> OutputFile(input_file), message |-> "none"]
    ELSE [status |-> "error", output_file |-> NoOutputFile, message |-> outcome]

MaxFiles == 3

\* two files of one stem in different directories, and a third file
BatchFiles == { InputFile("in", "a"), InputFile("old", "a"), InputFile("in", "b") }

\* one iteration of the loop of process_batch
ProcessFile ==
    /\ batch_status = "running"
    /\ batch_index < Len(input_files)
    /\ \E outcome \in FileOutcomes :
          LET input_file == input_files[batch_index + 1]
          IN IF outcome = "returned" \/ Caught(outcome)
             THEN /\ results' = ResultStore(results, input_file, ResultEntry(input_file, outcome))
                  /\ batch_log' = Append(batch_log, [file |-> input_file, outcome |-> outcome])
                  /\ batch_index' = batch_index + 1
                  /\ batch_status' = batch_status
             ELSE /\ batch_status' = "raised"
                  /\ batch_log' = Append(batch_log, [file |-> input_file, outcome |-> outcome])
                  /\ UNCHANGED <<results, batch_index>>
    /\ UNCHANGED <<input_files, pipelineVars, codeVars, resolverVars, concurrentVars, dateVars>>

\* return results, after the loop
ReturnResults ==
    /\ batch_status = "running"
    /\ batch_index = Len(input_files)
    /\ batch_status' = "returned"
    /\ UNCHANGED <<input_files, batch_index, results, batch_log,
                   pipelineVars, codeVars, resolverVars, concurrentVars, dateVars>>

InitBatch ==
    /\ IdlePipeline /\ IdleCode /\ IdleResolver /\ IdleConcurrent /\ IdleDate
    /\ input_files \in SeqsUpTo(BatchFiles, MaxFiles)
    /\ batch_index = 0
    /\ results = {}
    /\ batch_log = <<>>
    /\ batch_status = "running"

NextBatch ==
    \/ ProcessFile
    \/ ReturnResults

SpecBatch == InitBatch /\ [][NextBatch]_vars

---------------------------------------------------------------------------
(* utils/datetime_utils.py: parse_datetime                                 *)

LeapYear(year) == year % 4 = 0 /\ (year % 100 # 0 \/ year % 400 = 0)

DaysInMonth(year, month) ==
    IF month = 2 THEN (IF LeapYear(year) THEN 29 ELSE 28)
    ELSE IF month \in {4, 6, 9, 11} THEN 30 ELSE 31

\* the arguments datetime(...) accepts; it raises ValueError for the others
ValidDatetime(year, month, day, hour, minute, second) ==
    /\ year \in 1..9999
    /\ month \in 1..12
    /\ day \in 1..DaysInMonth(year, month)
    /\ hour \in 0..23
    /\ minute \in 0..59
    /\ second \in 0..59

\* the formats list, each format as its directives and literal characters
DatetimeFormats ==
    << <<"%m", "/", "%d", "/", "%y", " ", "%H", ":", "%M">>,
       <<"%m", "/", "%d", "/", "%Y", " ", "%H", ":", "%M">>,
       <<"%Y", "-", "%m", "-", "%d", "T", "%H", ":", "%M", ":", "%S", ".", "%f", "Z">>,
       <<"%Y", "-", "%m", "-", "%d", " ", "%H", ":", "%M", ":", "%S">>,
       <<"%Y", "%m", "%d", "%H", "%M", "%S", "%z">> >>

NumericDirectives == {"%Y", "%y", "%m", "%d", "%H", "%M", "%S", "%f"}

\* the fewest and the most digits a numeric directive takes
MinWidth(directive) ==
    IF directive = "%Y" THEN 4 ELSE IF directive = "%y" THEN 2 ELSE 1
MaxWidth(directive) ==
    IF directive = "%Y" THEN 4 ELSE IF directive = "%f" THEN 6 ELSE 2

\* the values the pattern of a numeric directive admits
InDirectiveRange(directive, value) ==
    IF directive = "%m" THEN value \in 1..12
    ELSE IF directive = "%d" THEN value \in 1..31
    ELSE IF directive = "%H" THEN value \in 0..23
    ELSE IF directive = "%M" THEN value \in 0..59
    ELSE IF directive = "%S" THEN value \in 0..61
    ELSE TRUE

\* no directive has been read
NoFields == [directive \in NumericDirectives \cup {"%z"} |-> <<>>]

\* how many characters a %z offset takes at pos: +HHMM or -HHMM with minutes
\* below 60, or Z; 0 when there is none
OffsetWidth(text, pos) ==
    IF pos <= Len(text) /\ text[pos] = "Z" THEN 1
    ELSE IF /\ pos + 4 <= Len(text)
            /\ text[pos] \in {"+", "-"}
            /\ \A k \in 1..4 : IsDigit(text[pos + k])
            /\ text[pos + 3] \in {"0", "1", "2", "3", "4", "5"}
         THEN 5
    ELSE 0

\* datetime.strptime matching the format from item k on against the text from
\* pos on: a numeric directive takes the digits present up to its width (which
\* is what its pattern matches when a literal or the end follows it, and when
\* every field of "%Y%m%d%H%M%S" is written with all its digits), a blank of
\* the format takes a run of whitespace, a literal is compared without case;
\* the whole text must be used up
RECURSIVE StrptimeFrom(_, _, _, _, _)
StrptimeFrom(text, pos, format, k, fields) ==
    IF k > Len(format) THEN [ok |-> pos = Len(text) + 1, fields |-> fields]
    ELSE IF format[k] \in NumericDirectives
    THEN LET run == RunEnd(text, pos, DigitChars)
             end == IF run - pos > MaxWidth(format[k]) THEN pos + MaxWidth(format[k]) ELSE run
             digits == SubSeq(text, pos, end - 1)
         IN IF end - pos >= MinWidth(format[k])
               /\ InDirectiveRange(format[k], DigitsValue(digits))
            THEN StrptimeFrom(text, end, format, k + 1, [fields EXCEPT ![format[k]] = digits])
            ELSE [ok |-> FALSE, fields |-> fields]
    ELSE IF format[k] = "%z"
    THEN IF OffsetWidth(text, pos) > 0
         THEN StrptimeFrom(text, pos + OffsetWidth(text, pos), format, k + 1,
                  [fields EXCEPT !["%z"] = SubSeq(text, pos, pos + OffsetWidth(text, pos) - 1)])
         ELSE [ok |-> FALSE, fields |-> fields]
    ELSE IF format[k] = " "
    THEN IF RunEnd(text, pos, SpaceChars) > pos
         THEN StrptimeFrom(text, RunEnd(text, pos, SpaceChars), format, k + 1, fields)
         ELSE [ok |-> FALSE, fields |-> fields]
    ELSE IF pos <= Len(text) /\ ToUpper(text[pos]) = format[k]
         THEN StrptimeFrom(text, pos + 1, format, k + 1, fields)
         ELSE [ok |-> FALSE, fields |-> fields]

\* the value of a field, or the default of a field the format lacks
FieldValue(fields, directive, default) ==
    IF fields[directive] = <<>> THEN default ELSE DigitsValue(fields[directive])

\* %y: 69..99 are years of 1900, 0..68 years of 2000
StrptimeYear(fields) ==
    IF fields["%Y"] # <<>> THEN DigitsValue(fields["%Y"])
    ELSE IF fields["%y"] = <<>> THEN 1900
    ELSE IF DigitsValue(fields["%y"]) >= 69 THEN 1900 + DigitsValue(fields["%y"])
    ELSE 2000 + DigitsValue(fields["%y"])

\* %f: the digits are the leading digits of six
RECURSIVE Microseconds(_)
Microseconds(digits) ==
    IF digits = <<>> THEN 0
    ELSE IF Len(digits) < 6 THEN Microseconds(Append(digits, "0"))
    ELSE DigitsValue(digits)

\* datetime.strptime(date_str, format): the datetime, or ValueError when the
\* text does not match or names a day its month does not have
Strptime(text, format) ==
    LET match == StrptimeFrom(text, 1, format, 1, NoFields)
        fields == match.fields
        year == StrptimeYear(fields)
        month == FieldValue(fields, "%m", 1)
        day == FieldValue(fields, "%d", 1)
        hour == FieldValue(fields, "%H", 0)
        minute == FieldValue(fields, "%M", 0)
        second == FieldValue(fields, "%S", 0)
    IN IF match.ok /\ ValidDatetime(year, month, day, hour, minute, second)
       THEN [ok |-> TRUE,
             value |-> Timestamp(year, month, day, hour, minute, second,
                                 Microseconds(fields["%f"]), fields["%z"])]
       ELSE [ok |-> FALSE, value |-> NoDatetime]

\* the formats that parse the text
MatchingFormats(text) ==
    {k \in 1..Len(DatetimeFormats) : Strptime(text, DatetimeFormats[k]).ok}

DateSeparators == {"/", "-"}

\* (\d{1,2})[/-](\d{1,2})[/-](\d{2,4}) matched at position i: the three
\* groups, or found = FALSE
DateMatchAt(text, i) ==
    LET e1 == RunEnd(text, i, DigitChars)
        e2 == RunEnd(text, e1 + 1, DigitChars)
        e3 == RunEnd(text, e2 + 1, DigitChars)
        last == IF e3 - (e2 + 1) > 4 THEN e2 + 4 ELSE e3 - 1
    IN IF /\ e1 - i \in {1, 2}
          /\ e1 <= Len(text) /\ text[e1] \in DateSeparators
          /\ e2 - (e1 + 1) \in {1, 2}
          /\ e2 <= Len(text) /\ text[e2] \in DateSeparators
          /\ e3 - (e2 + 1) >= 2
       THEN [found |-> TRUE, month |-> SubSeq(text, i, e1 - 1),
             day |-> SubSeq(text, e1 + 1, e2 - 1), year |-> SubSeq(text, e2 + 1, last)]
       ELSE [found |-> FALSE, month |-> <<>>, day |-> <<>>, year |-> <<>>]

\* re.search(date_pattern, date_str): the leftmost match
DateMatch(text) ==
    LET starts == {i \in 1..Len(text) : DateMatchAt(text, i).found}
    IN IF starts = {} THEN DateMatchAt(text, Len(text) + 1)
       ELSE DateMatchAt(text, CHOOSE i \in starts : \A h \in starts : i <= h)

\* (\d{1,2}):(\d{1,2}) matched at position i
TimeMatchAt(text, i) ==
    LET e1 == RunEnd(text, i, DigitChars)
        e2 == RunEnd(text, e1 + 1, DigitChars)
        last == IF e2 - (e1 + 1) > 2 THEN e1 + 2 ELSE e2 - 1
    IN IF /\ e1 - i \in {1, 2}
          /\ e1 <= Len(text) /\ text[e1] = ":"
          /\ e2 - (e1 + 1) >= 1
       THEN [found |-> TRUE, hour |-> SubSeq(text, i, e1 - 1),
             minute |-> SubSeq(text, e1 + 1, last)]
       ELSE [found |-> FALSE, hour |-> <<>>, minute |-> <<>>]

\* re.search(time_pattern, date_str): the leftmost match
TimeMatch(text) ==
    LET starts == {i \in 1..Len(text) : TimeMatchAt(text, i).found}
    IN IF starts = {} THEN TimeMatchAt(text, Len(text) + 1)
       ELSE TimeMatchAt(text, CHOOSE i \in starts : \A h \in starts : i <= h)

\* if year < 100: year += 2000 if year < 50 else 1900
RegexYear(digits) ==
    IF DigitsValue(digits) >= 100 THEN DigitsValue(digits)
    ELSE IF DigitsValue(digits) < 50 THEN DigitsValue(digits) + 2000
    ELSE DigitsValue(digits) + 1900

\* the regex branch: the datetime built from the date and time found, None
\* when there is no date or when datetime(...) raised (except Exception: pass)
ParseWithRegex(text) ==
    LET date == DateMatch(text)
        time == TimeMatch(text)
        year == RegexYear(date.year)
        month == DigitsValue(date.month)
        day == DigitsValue(date.day)
        hour == IF time.found THEN DigitsValue(time.hour) ELSE 0
        minute == IF time.found THEN DigitsValue(time.minute) ELSE 0
    IN IF date.found /\ ValidDatetime(year, month, day, hour, minute, 0)
       THEN Timestamp(year, month, day, hour, minute, 0, 0, <<>>)
       ELSE NoDatetime

\* parse_datetime(date_str)
parse_datetime(text) ==
    IF ~Truthy(text) \/ Strip(text) = <<>> THEN NoDatetime
    ELSE IF MatchingFormats(text) # {}
    THEN Strptime(text, DatetimeFormats[CHOOSE k \in MatchingFormats(text) :
                                            \A h \in MatchingFormats(text) : k <= h]).value
    ELSE ParseWithRegex(text)

\* what precedes the date: nothing, a word
DatePrefixes ==
    { <<>>,
      <<"E","T","A"," ">> }

\* dates: none, month/day/year with 2 and 4 digits and with dashes,
\* a day its month lacks, a day-first date, a year of the last century
DateParts ==
    { <<>>,
      <<"0","1","/","2","8","/","2","5">>,
      <<"0","1","/","2","8","/","2","0","2","5">>,
      <<"1","-","2","8","-","2","5">>,
      <<"0","2","/","3","0","/","2","5">>,
      <<"2","8","/","0","1","/","2","0","2","5">>,
      <<"1","2","/","3","1","/","9","9">> }

\* times of day: none, hour:minute, single digits, hour 24, minute 75
TimeParts ==
    { <<>>,
      <<" ","1","1",":","0","0">>,
      <<" ","9",":","5">>,
      <<" ","2","4",":","0","0">>,
      <<" ","1","1",":","7","5">> }

\* blanks, a word, an ISO date, and the texts of the last three formats
DateOtherTexts ==
    { <<" "," "," ">>,
      <<"t","o","m","o","r","r","o","w">>,
      <<"2","0","2","5","-","0","1","-","2","8">>,
      <<"2","0","2","5","-","0","1","-","2","8"," ","1","1",":","0","0",":","0","0">>,
      <<"2","0","2","5","-","0","1","-","2","8","T","1","1",":","0","0",":","0","0",".","5","Z">>,
      <<"2","0","2","2","1","1","0","8","0","0","0","0","0","0","-","0","7","0","0">> }

\* the texts given to parse_datetime: None, every prefix with every date and
\* every time of day, and the texts of other shapes
DateTexts ==
    {None} \cup DateOtherTexts
    \cup {prefix \o date \o time : prefix \in DatePrefixes, date \in DateParts,
                                   time \in TimeParts}

\* parse_datetime(date_str) called on the text
ParseDatetime ==
    /\ ~date_result.done
    /\ date_result' = [done |-> TRUE, value |-> parse_datetime(date_str)]
    /\ UNCHANGED <<date_str, pipelineVars, codeVars, resolverVars, batchVars,
                   concurrentVars>>

InitDate ==
    /\ IdlePipeline /\ IdleCode /\ IdleResolver /\ IdleBatch /\ IdleConcurrent
    /\ date_str \in DateTexts
    /\ date_result = [done |-> FALSE, value |-> NoDatetime]

NextDate == ParseDatetime

SpecDate == InitDate /\ [][NextDate]_vars

---------------------------------------------------------------------------
(* Properties of the stop-construction stage                               *)

Shippers == SectionItems(extraction_json.shipper_section)
Receivers == SectionItems(extraction_json.receiver_section)
BookingNumber == Get(extraction_json.booking_confirmation_number, None)

\* _process_stops has returned in this run
StopsDone ==
    pc \in {"determine_rev_types", "determine_commodity", "create_tms_request",
            "END", "returned"}

\* how many entries of a reference list hold the value
CountValue(refs, value) == Cardinality({k \in 1..Len(refs) : refs[k].value = value})

C2_SequenceAndOrder ==
    StopsDone =>
        LET S == Len(Shippers)
            R == Len(Receivers)
        IN /\ Len(stop_data) = S + R
           /\ \A k \in 1..Len(stop_data) : stop_data[k].sequence = k
           /\ \A k \in 1..S :
                 /\ k <= Len(stop_data)
                 /\ stop_data[k].companyID = CompanyCode(entity_mappings.shipper_codes, k)
                 /\ stop_data[k].referenceNumbers
                       = ShipperReferences(Shippers[k], BookingNumber)
           /\ \A k \in 1..R :
                 /\ S + k <= Len(stop_data)
                 /\ stop_data[S + k].companyID
                       = CompanyCode(entity_mappings.receiver_codes, k)
                 /\ stop_data[S + k].referenceNumbers
                       = ReceiverReferences(Receivers[k], BookingNumber)
           /\ Len(built) = Len(stop_data)
           /\ \A k \in 1..Len(built) : built[k].sequence = stop_data[k].sequence

\* two different shippers and two different receivers, resolved to different codes
C2_Witness ==
    /\ StopsDone
    /\ Len(Shippers) = 2 /\ Len(Receivers) = 2
    /\ Shippers[1] # Shippers[2] /\ Receivers[1] # Receivers[2]
    /\ Len(stop_data) = 4
    /\ stop_data[1].companyID # stop_data[2].companyID
    /\ stop_data[4].sequence = 4

\* the entries of a stop's list that precede an appended booking entry
\* (all of them when none was appended)
ExtractedCount(number) == Len(NumberReferences(Get(number, <<>>)))

\* C3 as stated: in every stop, pickup or delivery, the booking confirmation
\* number is appended as a LOAD reference only if no reference already in the
\* stop's list has that value.
C3_BookingAppendedOnlyIfNew ==
    StopsDone =>
        /\ \A k \in 1..Len(Shippers) :
              LET refs == stop_data[k].referenceNumbers
                  n == ExtractedCount(Shippers[k].pickup_number)
              IN Len(refs) > n => \A j \in 1..n : refs[j].value # refs[n + 1].value
        /\ \A k \in 1..Len(Receivers) :
              LET refs == stop_data[Len(Shippers) + k].referenceNumbers
                  n == ExtractedCount(Receivers[k].receiver_delivery_number)
              IN Len(refs) > n => \A j \in 1..n : refs[j].value # refs[n + 1].value

\* C4: for a receiver line-item, with a booking confirmation number present:
\* if the delivery number yields a reference with that value, the stop's list
\* is exactly what the delivery number yields; otherwise it is that followed
\* by one LOAD entry holding the booking confirmation number.
C4_DeliveryDeduplication ==
    (StopsDone /\ Truthy(BookingNumber)) =>
        \A k \in 1..Len(Receivers) :
            LET refs == stop_data[Len(Shippers) + k].referenceNumbers
                extracted == NumberReferences(
                                 Get(Receivers[k].receiver_delivery_number, <<>>))
            IN IF \E j \in 1..Len(extracted) : extracted[j].value = BookingNumber
               THEN /\ refs = extracted
                    /\ CountValue(refs, BookingNumber)
                          = CountValue(extracted, BookingNumber)
               ELSE /\ Len(refs) = Len(extracted) + 1
                    /\ SubSeq(refs, 1, Len(extracted)) = extracted
                    /\ refs[Len(refs)] = StopReference("LOAD", BookingNumber)
                    /\ CountValue(refs, BookingNumber) = 1

\* a delivery number that yields the booking number twice next to one that
\* does not yield it: two entries and no LOAD in the first stop, a LOAD in the second
C4_Witness ==
    /\ StopsDone /\ Truthy(BookingNumber)
    /\ Len(Shippers) = 0 /\ Len(Receivers) = 2
    /\ CountValue(stop_data[1].referenceNumbers, BookingNumber) = 2
    /\ \A j \in 1..Len(stop_data[1].referenceNumbers) :
          stop_data[1].referenceNumbers[j].referenceType # "LOAD"
    /\ Len(stop_data[2].referenceNumbers) = 2
    /\ stop_data[2].referenceNumbers[1].value = <<"#"," ","1","0","2","7","1">>
    /\ stop_data[2].referenceNumbers[2] = StopReference("LOAD", BookingNumber)

---------------------------------------------------------------------------
(* Properties of the oracle-using stages                                   *)

\* a string of exactly four characters, none of them lower case
IsFourUpper(v) ==
    IsStr(v) /\ Len(v) = 4 /\ \A i \in 1..Len(v) : ~IsLower(v[i])

\* C5 as stated: whatever the oracle answers in the three stages, no exception
\* reaches the caller of process(); the run ends with a request.
C5_NoExceptionReachesCaller == pc # "raised" /\ error = "none"

\* C6 as stated: in every returned request billTo, orderBy, shipper, consignee
\* and every stop's companyID are exactly four upper-case characters.
C6_CodesFourUppercase ==
    pc = "returned" =>
        /\ IsFourUpper(tms_request.billTo)
        /\ IsFourUpper(tms_request.orderBy)
        /\ IsFourUpper(tms_request.shipper)
        /\ IsFourUpper(tms_request.consignee)
        /\ \A k \in 1..Len(tms_request.stops) :
              IsFourUpper(tms_request.stops[k].companyID)

\* C7 as stated: in every returned request each revType field is a member of
\* its enumeration.
C7_RevTypesInEnum ==
    pc = "returned" =>
        /\ tms_request.revType1 \in {"LOGCOM", "LOGOUT", "STAND"}
        /\ tms_request.revType2 \in {"HOUSE", "CZ", "JBEMIS", "STD", "STI", "STO"}
        /\ tms_request.revType3
              \in {"IN", "OUT", "GSTET", "JCLAY", "JKOPP", "LPATE", "SCAMP"}
        /\ tms_request.revType4 \in {"LOCAL", "MDWST", "OTR", "FLAT", "MILES"}

\* the four revType fields of the request are the default tuple
RequestHasDefaultRevTypes ==
    /\ tms_request.revType1 = "LOGCOM"
    /\ tms_request.revType2 = "HOUSE"
    /\ tms_request.revType3 = "IN"
    /\ tms_request.revType4 = "OTR"

\* C8: when the revenue-type call failed or returned text that is not JSON,
\* the stage stores LOGCOM, HOUSE, IN, OTR, and the final request carries
\* these four together.
C8_UnparsableGivesDefaultTuple ==
    responses.rev.kind \in {"fail", "text"} =>
        /\ revType_values = DefaultRevTypes
        /\ tms_request.present => RequestHasDefaultRevTypes

\* a returned request after non-JSON text, and one after a failed call
C8_Witness ==
    /\ pc = "returned"
    /\ responses.rev.kind = "text"
    /\ tms_request.revType1 = "LOGCOM" /\ tms_request.revType4 = "OTR"

\* the answer parsed as an object that lacks at least one revType key
RevAnswerLacksKey ==
    /\ responses.rev.kind = "json"
    /\ responses.rev.value.t = "dict"
    /\ "<absent>" \in {responses.rev.value.revType1, responses.rev.value.revType2,
                       responses.rev.value.revType3, responses.rev.value.revType4}

CommodityDone == responses.commodity.kind # "none"

\* C10: the commodity stage stores the first code, in declaration order, that
\* occurs anywhere in the response text, and FAK when none occurs or the call
\* failed; the stored code is one of the nine.
C10_FirstDeclaredCodeInText ==
    CommodityDone =>
        LET text == ResponseText(responses.commodity)
            hits == {i \in 1..Len(valid_commodities) :
                        Contains(valid_commodities[i], text)}
        IN /\ hits = {} => commodity_code = COMMODITY_FAK
           /\ hits # {} =>
                 \E i \in hits : /\ commodity_code = valid_commodities[i]
                                 /\ \A j \in hits : i <= j
           /\ \E i \in 1..Len(valid_commodities) : commodity_code = valid_commodities[i]

\* STEEL stands before BRICK in the text, BRICK before STEEL in the declaration
C10_Witness ==
    /\ CommodityDone
    /\ ResponseText(responses.commodity) = <<"S","T","E","E","L","B","R","I","C","K">>
    /\ commodity_code = <<"B","R","I","C","K">>


---------------------------------------------------------------------------
(* Properties of the fallback code generators                              *)

\* a generator has returned
CodeDone == code_result.by # "none"

\* C11: for every input text the fallback code generator returns exactly 4
\* characters, each of them an uppercase ASCII letter.
C11_CodeIsFourUppercaseLetters ==
    CodeDone =>
        /\ Len(code_result.value) = 4
        /\ \A i \in 1..Len(code_result.value) : IsUpper(code_result.value[i])

\* the tokens of the claim: the text without its non-alphanumeric
\* characters, uppercased, split on whitespace
CodeTokens(text) ==
    IF IsStr(text) THEN Words(Filter(Upper(text), CleanChars), <<>>) ELSE <<>>

\* the i-th character of a token, or the padding character behind its end
CharOrX(token, i) == IF i <= Len(token) THEN token[i] ELSE "X"

\* C12: no token gives UNKN; one token gives its first 4 characters padded
\* with X; several tokens give the first characters of the first up to 4
\* tokens, then characters 2.. of the first token as far as needed, then X
\* padding; "" gives UNKN, "AB" gives ABXX and "Boise Cascade Building
\* Materials" gives BCBM.
C12_FallbackCodeAlgorithm ==
    CodeDone =>
        LET tokens == CodeTokens(code_text)
            n == Len(tokens)
            k == IF n > 4 THEN 4 ELSE n
        IN /\ n = 0 => code_result.value = UNKN
           /\ n = 1 => code_result.value = [i \in 1..4 |-> CharOrX(tokens[1], i)]
           /\ n > 1 => code_result.value =
                          [i \in 1..4 |-> IF i <= k THEN tokens[i][1]
                                          ELSE CharOrX(tokens[1], i - k + 1)]
           /\ code_text = <<>> => code_result.value = UNKN
           /\ code_text = <<"A","B">> => code_result.value = <<"A","B","X","X">>
           /\ code_text = <<"B","o","i","s","e"," ","C","a","s","c","a","d","e"," ","B","u","i","l","d","i","n","g"," ","M","a","t","e","r","i","a","l","s">>
                 => code_result.value = <<"B","C","B","M">>

\* C12 witness: the agent's generator was applied to a text of two or three
\* tokens whose first token has a second character, so that the code takes
\* characters from the first token.
C12_Witness ==
    /\ code_result.by = "agent"
    /\ Len(CodeTokens(code_text)) \in {2, 3}
    /\ Len(CodeTokens(code_text)[1]) > 1
    /\ code_result.value[Len(CodeTokens(code_text)) + 1] = CodeTokens(code_text)[1][2]

---------------------------------------------------------------------------
(* Properties of the entity resolver                                       *)

\* the key of a logged call: (uppercased name, role)
LoggedKey(call) == <<Upper(call.name), call.entity_type>>

\* C13: a resolve call with a non-empty name whose key (uppercased name,
\* role) was resolved by an earlier call returns the code that call returned
\* and makes no oracle call, whatever its address; the oracle is called at
\* most once per key.
C13_CacheHitReturnsEarlierCode ==
    /\ \A i, j \in 1..Len(resolve_log) :
          (/\ i < j
           /\ Truthy(resolve_log[i].name)
           /\ Truthy(resolve_log[j].name)
           /\ LoggedKey(resolve_log[i]) = LoggedKey(resolve_log[j]))
          => /\ resolve_log[j].code = resolve_log[i].code
             /\ ~resolve_log[j].oracle_called
    /\ \A i \in 1..Len(resolve_log) :
          Cardinality({j \in 1..Len(resolve_log) :
                          /\ resolve_log[j].oracle_called
                          /\ LoggedKey(resolve_log[j]) = LoggedKey(resolve_log[i])}) <= 1

\* C13 witness: a key resolved through the oracle is asked for again under
\* another spelling of the name and another address, after a call for a
\* different key.
C13_Witness ==
    /\ Len(resolve_log) = 3
    /\ resolve_log[1].oracle_called
    /\ resolve_log[2].oracle_called
    /\ LoggedKey(resolve_log[3]) = LoggedKey(resolve_log[1])
    /\ resolve_log[3].name # resolve_log[1].name
    /\ resolve_log[3].address # resolve_log[1].address
    /\ resolve_log[3].code = resolve_log[1].code
    /\ resolve_log[3].code # resolve_log[2].code

---------------------------------------------------------------------------
(* Properties of the workflow as a whole                                   *)

\* the five stages in the order of the claim
StageOrder ==
    <<"extract_entities", "process_stops", "determine_rev_types",
      "determine_commodity", "create_tms_request">>

\* C14: the stages run in the order resolve entities, build stops, classify
\* revenue types, classify commodity, assemble request: the stages entered so
\* far are always an initial part of that order (none twice, none out of
\* order, none after assemble), the stage waiting to run is the one after the
\* last that ran, and a run whose workflow came to its end ran all five.
C14_StagesInFixedOrder ==
    /\ Len(executed) <= Len(StageOrder)
    /\ \A i \in 1..Len(executed) : executed[i] = StageOrder[i]
    /\ pc \in {StageOrder[i] : i \in 1..Len(StageOrder)}
          => pc = StageOrder[Len(executed) + 1]
    /\ (pc \in {"END", "returned"} \/ error = "ValidationError")
          => executed = StageOrder

\* C14 witness: a run that returned a request after all five stages.
C14_Witness == pc = "returned" /\ executed = StageOrder

\* the oracle-using stages that have received a response in this run
StagesAnswered ==
    {stage \in {"entities", "rev", "commodity"} : responses[stage].kind # "none"}

\* C15: each oracle-using stage issues at most one oracle call, a failed
\* call is not re-issued and the stage's fallback value is used at once, so
\* a run makes at most three oracle calls.
C15_OneOracleCallPerStage ==
    /\ llm_calls = Cardinality(StagesAnswered)
    /\ llm_calls <= 3
    /\ responses.entities.kind = "fail"
          => entity_mappings = FallbackEntities(extraction_json)
    /\ responses.rev.kind = "fail" => revType_values = DefaultRevTypes
    /\ responses.commodity.kind = "fail" => commodity_code = COMMODITY_FAK

\* C15 witness: a run that returned after all three oracle calls failed.
C15_Witness ==
    /\ pc = "returned"
    /\ llm_calls = 3
    /\ \A stage \in {"entities", "rev", "commodity"} : responses[stage].kind = "fail"

---------------------------------------------------------------------------
(* Properties of batch processing                                          *)

\* the entries the result map holds for an input file
EntriesOf(input_file) == {e \in results : e[1] = input_file}

\* the outcome of the last handling of an input file
LastOutcome(input_file) ==
    LET at == {i \in 1..Len(batch_log) : batch_log[i].file = input_file}
    IN batch_log[CHOOSE i \in at : \A h \in at : h <= i].outcome

\* C16: process_batch handles every input file of the list, also after
\* earlier ones failed, and never raises because a document failed; the map
\* it returns holds for each input either status success with the output
\* location or status error with the error message.
C16_BatchIsolatesFailures ==
    /\ batch_status # "raised"
    /\ \A i \in 1..Len(batch_log) : batch_log[i].file = input_files[i]
    /\ batch_status = "returned" =>
          /\ Len(batch_log) = Len(input_files)
          /\ \A i \in 1..Len(input_files) :
                LET input_file == input_files[i]
                IN /\ Cardinality(EntriesOf(input_file)) = 1
                   /\ \A e \in EntriesOf(input_file) :
                         IF LastOutcome(input_file) = "returned"
                         THEN e[2].status = "success" /\ e[2].output_file = OutputFile(input_file)
                         ELSE e[2].status = "error" /\ e[2].message = LastOutcome(input_file)

\* C16 witness: a batch returned after its first document failed and a
\* later one succeeded.
C16_Witness ==
    /\ batch_status = "returned"
    /\ Len(batch_log) = 3
    /\ batch_log[1].outcome = "process_error"
    /\ batch_log[3].outcome = "returned"
    /\ batch_log[1].file # batch_log[3].file

---------------------------------------------------------------------------
(* Properties of documents with missing fields and of the assembled request *)

\* C17: for a document in which any field is missing or null (sections,
\* names, identifier fields, rates, equipment type), with an oracle that
\* fails or answers well-formed, the run returns a request and never raises.
C17_MissingOrNullNeverRaises ==
    pc \in {"returned", "raised"} => (pc = "returned" /\ tms_request.present)

\* the number a rate string of the documents denotes, by hand
RateNumber(text) ==
    CASE text = <<"1","1","7","5",".","0","0">> -> [parses |-> TRUE, mant |-> 1175, scale |-> 0]
      [] text = <<" ","7",".","5"," ">> -> [parses |-> TRUE, mant |-> 75, scale |-> 1]
      [] OTHER -> [parses |-> FALSE, mant |-> 0, scale |-> 0]

\* C18: chargeRate is the numeric value of the first non-empty of
\* (freight rate, total rate, 0) when it parses as a number and 111.11 when
\* it does not; no freight rate with total rate "not-a-number" gives 111.11;
\* the assemble stage does not raise because of a rate.
C18_ChargeRateOrDefault ==
    /\ Len(executed) = 5 => tms_request.present
    /\ tms_request.present =>
          LET freight == extraction_json.freight_rate
              total == extraction_json.total_rate
              first == IF Truthy(freight) THEN freight ELSE total
          IN /\ (~Truthy(freight) /\ ~Truthy(total))
                   => tms_request.chargeRate = [mant |-> 0, scale |-> 0]
             /\ (Truthy(first) /\ RateNumber(first).parses)
                   => tms_request.chargeRate = [mant |-> RateNumber(first).mant,
                                                scale |-> RateNumber(first).scale]
             /\ (Truthy(first) /\ ~RateNumber(first).parses)
                   => tms_request.chargeRate = [mant |-> 11111, scale |-> 2]
             /\ (freight \in {None, Absent}
                 /\ total = <<"n","o","t","-","a","-","n","u","m","b","e","r">>)
                   => tms_request.chargeRate = [mant |-> 11111, scale |-> 2]

\* C18 witness: a request was assembled from a document with a null freight
\* rate and the total rate "not-a-number".
C18_Witness ==
    /\ tms_request.present
    /\ extraction_json.freight_rate = None
    /\ extraction_json.total_rate = <<"n","o","t","-","a","-","n","u","m","b","e","r">>
    /\ tms_request.chargeRate = [mant |-> 11111, scale |-> 2]

\* the k-th top-level reference slot of the request
ReferenceSlot(k) ==
    CASE k = 1 -> [type |-> tms_request.referenceType1, number |-> tms_request.referenceNumber1]
      [] k = 2 -> [type |-> tms_request.referenceType2, number |-> tms_request.referenceNumber2]
      [] k = 3 -> [type |-> tms_request.referenceType3, number |-> tms_request.referenceNumber3]

EmptySlot == [type |-> "<null>", number |-> None]

\* C19: the reference slots are filled from slot 1 with (LOAD, booking
\* confirmation number) if that number is present, then (REF, reference
\* number) if that number is present; a slot's type is present exactly when
\* its number is; no gap precedes a filled slot; at most 3 slots are filled.
C19_ReferenceSlotsContiguous ==
    tms_request.present =>
        LET booking == extraction_json.booking_confirmation_number
            reference == extraction_json.reference_number
            load == [type |-> "LOAD", number |-> booking]
            ref == [type |-> "REF", number |-> reference]
        IN /\ ReferenceSlot(1) = IF Truthy(booking) THEN load
                                 ELSE IF Truthy(reference) THEN ref ELSE EmptySlot
           /\ ReferenceSlot(2) = IF Truthy(booking) /\ Truthy(reference) THEN ref
                                 ELSE EmptySlot
           /\ ReferenceSlot(3) = EmptySlot
           /\ \A k \in 1..3 :
                 (ReferenceSlot(k).type = "<null>") <=> (ReferenceSlot(k).number = None)
           /\ \A k \in 2..3 :
                 ReferenceSlot(k) # EmptySlot => ReferenceSlot(k - 1) # EmptySlot

\* C19 witness: a request assembled from a document without a booking
\* number and with a reference number, which takes slot 1.
C19_Witness ==
    /\ tms_request.present
    /\ ~Truthy(extraction_json.booking_confirmation_number)
    /\ ReferenceSlot(1) = [type |-> "REF", number |-> <<"0","5","6","7","6","9","6">>]

\* C20: for the example document the output has exactly 2 stops, sequence 1
\* of type PUP and sequence 2 of type DRP, chargeRate 1175.0, references
\* (LOAD, "10271") and (REF, "0567696") in slots 1 and 2, and trailer type VAN.
C20_ExampleDocumentOutput ==
    (pc = "returned" /\ extraction_json = ExampleDocument) =>
        /\ Len(tms_request.stops) = 2
        /\ tms_request.stops[1].sequence = 1
        /\ tms_request.stops[1].stopType = "PUP"
        /\ tms_request.stops[2].sequence = 2
        /\ tms_request.stops[2].stopType = "DRP"
        /\ tms_request.chargeRate = [mant |-> 1175, scale |-> 0]
        /\ tms_request.referenceType1 = "LOAD"
        /\ tms_request.referenceNumber1 = <<"1","0","2","7","1">>
        /\ tms_request.referenceType2 = "REF"
        /\ tms_request.referenceNumber2 = <<"0","5","6","7","6","9","6">>
        /\ tms_request.trailerType1 = "VAN"

\* C20 witness: the example document was processed to the end, with an
\* oracle that answered the entity question.
C20_Witness ==
    /\ pc = "returned"
    /\ extraction_json = ExampleDocument
    /\ responses.entities.kind = "json"

---------------------------------------------------------------------------
(* Properties of the repair step                                           *)

\* C21: with zero shipper and zero receiver line-items the stop list is
\* empty before and after the repair, no repair warning is emitted, no
\* exception is raised, and the request returned has an empty stops list.
C21_ZeroItemsEmptyStops ==
    (Shippers = <<>> /\ Receivers = <<>>) =>
        /\ pc # "raised"
        /\ built = <<>>
        /\ stop_data = <<>>
        /\ warnings = <<>>
        /\ tms_request.present => tms_request.stops = <<>>

\* C21 witness: a run on a document without line-items has returned.
C21_Witness ==
    /\ Shippers = <<>>
    /\ Receivers = <<>>
    /\ pc = "returned"
    /\ tms_request.stops = <<>>

\* the loops built exactly one stop
SingleStop == StopsDone /\ Len(built) = 1

\* C22 as stated: when the input yields exactly one stop, both repairs apply
\* to it, first PUP then DRP, and its final stop type is DRP with event code
\* LUL.
C22_SingleStopEndsAsDelivery ==
    SingleStop =>
        /\ Len(warnings) = 2
        /\ stop_data[1].stopType = "DRP"
        /\ stop_data[1].eventCode = "LUL"

\* C22 as the code has it: exactly one repair applies to the single stop;
\* the stop of a lone shipper ends as DRP with LUL, the stop of a lone
\* receiver ends as PUP with LLD.
C22_SingleStopOneRepair ==
    SingleStop =>
        /\ Len(stop_data) = 1
        /\ Len(warnings) = 1
        /\ Len(Shippers) = 1 =>
              /\ built[1].stopType = "PUP"
              /\ stop_data[1].stopType = "DRP"
              /\ stop_data[1].eventCode = "LUL"
              /\ warnings[1] = "No delivery stop found, setting the last stop as delivery"
        /\ Len(Receivers) = 1 =>
              /\ built[1].stopType = "DRP"
              /\ stop_data[1].stopType = "PUP"
              /\ stop_data[1].eventCode = "LLD"
              /\ warnings[1] = "No pickup stop found, setting the first stop as pickup"

\* C22 witness: the single stop of a lone receiver after the repair.
C22_Witness ==
    /\ SingleStop
    /\ Len(Receivers) = 1
    /\ stop_data[1].stopType = "PUP"

\* the positions whose stop type the repair changed
ChangedStops == {k \in 1..Len(built) : stop_data[k].stopType # built[k].stopType}

\* C23: a repair that changes a stop's type emits a warning in the same
\* stage execution, one per repair applied, and a run whose repair step
\* changes no stop has no repair warning.
C23_RepairIsReported ==
    /\ ~StopsDone => warnings = <<>>
    /\ StopsDone =>
          /\ Len(warnings) = Cardinality(ChangedStops)
          /\ (1 \in ChangedStops /\ stop_data[1].stopType = "PUP")
                => \E i \in 1..Len(warnings) :
                       warnings[i] = "No pickup stop found, setting the first stop as pickup"
          /\ (Len(built) \in ChangedStops /\ stop_data[Len(built)].stopType = "DRP")
                => \E i \in 1..Len(warnings) :
                       warnings[i] = "No delivery stop found, setting the last stop as delivery"

\* C23 witness: of two shipper stops the last was coerced to DRP and the
\* warning was emitted.
C23_Witness ==
    /\ StopsDone
    /\ Len(built) = 2
    /\ ChangedStops = {2}
    /\ warnings = <<"No delivery stop found, setting the last stop as delivery">>

\* event code and stop type of a stop agree
CodesAgree(stop) ==
    /\ stop.stopType \in {"PUP", "DRP"}
    /\ stop.eventCode = "LLD" <=> stop.stopType = "PUP"
    /\ stop.eventCode = "LUL" <=> stop.stopType = "DRP"

\* C28: in the stop list before and after the repair, eventCode is LLD
\* exactly when stopType is PUP and LUL exactly when stopType is DRP, and
\* stopType is PUP or DRP.
C28_EventCodeMatchesStopType ==
    /\ \A k \in 1..Len(built) : CodesAgree(built[k])
    /\ \A k \in 1..Len(stop_data) : CodesAgree(stop_data[k])

\* C28 witness: of two receiver stops the first was coerced to a pickup.
C28_Witness ==
    /\ StopsDone
    /\ Len(built) = 2
    /\ built[1].eventCode = "LUL"
    /\ stop_data[1].eventCode = "LLD"
    /\ stop_data[1].stopType = "PUP"

---------------------------------------------------------------------------
(* Properties relating the request to the stops and to earlier stages      *)

\* the code a list of resolved codes has for position i, UNKN behind its end
CodeAt(codes, i) == IF i <= Len(codes) THEN codes[i] ELSE UNKN

\* C30: in a returned request the shipper code is the companyID of the stop
\* of sequence 1 when there is a shipper line-item, the consignee code is
\* the companyID of the first receiver stop when there is a receiver
\* line-item, billTo and orderBy both are the customer code, and positions
\* behind the end of a resolved-code list are UNKN in the stops and at top
\* level.
C30_TopLevelCodesMatchStops ==
    pc = "returned" =>
        LET S == Len(Shippers)
            R == Len(Receivers)
            shipper_codes == entity_mappings.shipper_codes.items
            receiver_codes == entity_mappings.receiver_codes.items
        IN /\ S >= 1 => /\ tms_request.stops[1].sequence = 1
                        /\ tms_request.shipper = tms_request.stops[1].companyID
           /\ R >= 1 => /\ tms_request.stops[S + 1].sequence = S + 1
                        /\ tms_request.consignee = tms_request.stops[S + 1].companyID
           /\ tms_request.billTo = tms_request.orderBy
           /\ tms_request.billTo = entity_mappings.customer_code
           /\ \A i \in 1..S : tms_request.stops[i].companyID = CodeAt(shipper_codes, i)
           /\ \A i \in 1..R : tms_request.stops[S + i].companyID = CodeAt(receiver_codes, i)
           /\ tms_request.shipper = CodeAt(shipper_codes, 1)
           /\ tms_request.consignee = CodeAt(receiver_codes, 1)

\* C30 witness: a returned request for two shippers and a receiver with
\* one resolved code per list, the second shipper stop carrying UNKN.
C30_Witness ==
    /\ pc = "returned"
    /\ Len(Shippers) = 2
    /\ Len(Receivers) = 1
    /\ Len(entity_mappings.shipper_codes.items) = 1
    /\ tms_request.stops[2].companyID = UNKN
    /\ tms_request.shipper # UNKN
    /\ tms_request.consignee = tms_request.stops[3].companyID
\* what every step of a run leaves alone: the input document always, the
\* entity code map once resolve-entities ran, the stop list once build-stops
\* ran
KeepsEarlierSlices ==
    /\ extraction_json' = extraction_json
    /\ pc # "extract_entities" => entity_mappings' = entity_mappings
    /\ pc # "process_stops" => stop_data' = stop_data

\* C27: no stage modifies the slices produced before it: the entity code map
\* is not modified after resolve-entities, the stop list is not modified by
\* the two classification stages or by assemble, and the input document is
\* never modified.
C27_EarlierSlicesUnchanged == [][KeepsEarlierSlices]_vars

\* C27 witness: a run has returned with the stops and the codes that the
\* first two stages wrote.
C27_Witness ==
    /\ pc = "returned"
    /\ stop_data # <<>>
    /\ stop_data = RepairStops(built)
    /\ tms_request.stops = stop_data
    /\ entity_mappings.shipper_codes.items # <<>>

---------------------------------------------------------------------------
(* Properties of the resolver's oracle-derived and fallback codes          *)

\* the cache key of a call of the log
StoredKey(i) == CacheKey(resolve_log[i].name, resolve_log[i].entity_type)

\* the first run of 4 capitals of the text as the oracle wrote it, or <<>>
UppercaseRun(text) ==
    IF FirstCodeMatch(text) > 0
    THEN SubSeq(text, FirstCodeMatch(text), FirstCodeMatch(text) + 3)
    ELSE <<>>

\* C24: a resolve with a non-empty name and a cache miss returns the first
\* run of 4 consecutive uppercase letters of the oracle's response text when
\* there is one and the fallback code of the name otherwise, and stores the
\* returned value under (uppercased name, role).
C24_CodeIsUppercaseRunOfResponse ==
    \A i \in 1..Len(resolve_log) :
        resolve_log[i].oracle_called =>
            /\ resolve_log[i].code =
                  IF UppercaseRun(resolve_log[i].response) # <<>>
                  THEN UppercaseRun(resolve_log[i].response)
                  ELSE generate_fallback_code(resolve_log[i].name)
            /\ <<StoredKey(i), resolve_log[i].code>> \in entity_cache

\* the call of the log did not get a code from the oracle
FellBack(i) ==
    /\ resolve_log[i].oracle_called
    /\ FirstCodeMatch(Upper(resolve_log[i].response)) = 0

\* C29: a fallback code taken after a failed or code-less oracle call is
\* stored like any other; every later resolve of the same (uppercased name,
\* role) returns it without calling the oracle, and an entry once written
\* stays in the cache unchanged through later calls.
C29_FallbackIsCachedForGood ==
    \A i \in 1..Len(resolve_log) :
        /\ resolve_log[i].oracle_called =>
              /\ <<StoredKey(i), resolve_log[i].code>> \in entity_cache
              /\ \A entry \in entity_cache :
                     entry[1] = StoredKey(i) => entry[2] = resolve_log[i].code
        /\ FellBack(i) =>
              /\ resolve_log[i].code = generate_fallback_code(resolve_log[i].name)
              /\ \A j \in (i + 1)..Len(resolve_log) :
                     (Truthy(resolve_log[j].name) /\ LoggedKey(resolve_log[j]) = LoggedKey(resolve_log[i])) =>
                         /\ ~resolve_log[j].oracle_called
                         /\ resolve_log[j].code = resolve_log[i].code

\* C29 witness: the oracle failed for a name, a second name was resolved by
\* the oracle, then the first name was resolved again from the cache.
C29_Witness ==
    /\ Len(resolve_log) = 3
    /\ FellBack(1)
    /\ resolve_log[2].oracle_called
    /\ ~FellBack(2)
    /\ LoggedKey(resolve_log[2]) # LoggedKey(resolve_log[1])
    /\ LoggedKey(resolve_log[3]) = LoggedKey(resolve_log[1])
    /\ ~resolve_log[3].oracle_called
    /\ resolve_log[3].code = generate_fallback_code(resolve_log[1].name)

---------------------------------------------------------------------------
(* Properties of resolve under concurrent runs                             *)

\* the resolver a returned call was made on
ResolverOfCall(i) == resolver_of[returns[i].run]

\* the cache key of a returned call
ReturnedKey(i) == CacheKey(returns[i].name, returns[i].entity_type)

\* two returned calls on one resolver for one key that both called the oracle
BothMissed(i, j) ==
    /\ i < j
    /\ ResolverOfCall(i) = ResolverOfCall(j)
    /\ ReturnedKey(i) = ReturnedKey(j)
    /\ returns[i].oracle_called
    /\ returns[j].oracle_called

\* C26: two calls on one resolver that both miss the cache for one key and
\* both call the oracle come from two runs sharing that resolver, and the
\* cache keeps the code of the later store; on a resolver that one run alone
\* uses, a key is sent to the oracle at most once and every call for it
\* returns the code the cache holds.
C26_DoubleMissNeedsSharedResolver ==
    \A i, j \in 1..Len(returns) :
        /\ BothMissed(i, j) =>
              /\ returns[i].run # returns[j].run
              /\ resolver_of[1] = resolver_of[2]
        /\ (returns[i].oracle_called
               /\ ~\E k \in (i + 1)..Len(returns) : BothMissed(i, k)) =>
              <<ReturnedKey(i), returns[i].code>> \in caches[ResolverOfCall(i)]
        /\ (/\ resolver_of[1] # resolver_of[2]
            /\ ResolverOfCall(i) = ResolverOfCall(j)
            /\ Truthy(returns[i].name) /\ Truthy(returns[j].name)
            /\ ReturnedKey(i) = ReturnedKey(j)) =>
              /\ returns[i].code = returns[j].code
              /\ <<ReturnedKey(i), returns[i].code>> \in caches[ResolverOfCall(i)]

\* C26 witness: two runs sharing a resolver both missed the cache for one
\* key, the oracle was called twice, the callers got different codes and
\* the cache holds the code stored last.
C26_Witness ==
    /\ resolver_of[1] = resolver_of[2]
    /\ \E i, j \in 1..Len(returns) :
          /\ BothMissed(i, j)
          /\ returns[i].run # returns[j].run
          /\ returns[i].code # returns[j].code
          /\ caches[ResolverOfCall(j)] = {<<ReturnedKey(j), returns[j].code>>}

---------------------------------------------------------------------------
(* Properties of parse_datetime                                            *)

\* the text is None, empty or blank
BlankText(text) == ~Truthy(text) \/ Strip(text) = <<>>

\* a month/day/year pattern, or a text in one of the five formats
DateLocated(text) == DateMatch(text).found \/ MatchingFormats(text) # {}

\* C25: parse_datetime returns none only when the text is empty or no date
\* (month/day/year pattern or one of the five formats) can be located in it,
\* and whenever a month/day/year pattern is present it returns a timestamp
\* whose hour and minute are those of the text, or midnight without them.
C25_LocatedDateIsParsed ==
    date_result.done =>
        /\ date_result.value.none =>
              (BlankText(date_str) \/ ~DateLocated(date_str))
        /\ (~BlankText(date_str) /\ DateMatch(date_str).found) =>
              /\ ~date_result.value.none
              /\ date_result.value.hour =
                    (IF TimeMatch(date_str).found
                     THEN DigitsValue(TimeMatch(date_str).hour) ELSE 0)
              /\ date_result.value.minute =
                    (IF TimeMatch(date_str).found
                     THEN DigitsValue(TimeMatch(date_str).minute) ELSE 0)
====
